---------------------------- MODULE Spec2Model ----------------------------
(***************************************************************************)
(* Model of the base58 codec of go-sol-sign (base58Decode, base58Encode).  *)
(*                                                                         *)
(* A Go string is a sequence of bytes; it is modelled as a sequence of     *)
(* byte values 0..255 (the character's code), a []byte likewise.  Go       *)
(* indexes from 0 and TLA+ from 1: the element the code calls x[i] is      *)
(* x[i + 1] here, and loop variables keep the TLA+ index.                  *)
(*                                                                         *)
(* A loop over a range lo..hi is evaluated by halving the range: the first *)
(* half's iterations, then the second half's on what the first half left.  *)
(* The iterations and their order are the loop's; only the depth of the    *)
(* evaluation is kept logarithmic, so that keys and signatures of 32 and   *)
(* 64 bytes can be converted.  The test on the first half's value between  *)
(* the halves is always true: it is there so that the first half has been  *)
(* evaluated when the second half starts.                                  *)
(***************************************************************************)
EXTENDS Integers, Sequences, FiniteSets, TLC

\* ------------------------------------------------------------------------
\* Bounds of the model
\* ------------------------------------------------------------------------

\* longest byte sequence handed to base58Encode
MaxBytesLen == 4

\* longest string handed to base58Decode
MaxStrLen == 4

\* longest argument of a concurrent invocation
MaxConcLen == 2

\* ------------------------------------------------------------------------
\* Values
\* ------------------------------------------------------------------------

Byte == 0..255

\* the sequences over S of length at most n
SeqUpTo(S, n) == UNION {[1..k -> S] : k \in 0..n}

\* the error value of a call that succeeded
nil == [kind |-> "nil"]

\* fmt.Errorf("invalid character '%c' in base58 string", char)
InvalidCharacter(char) == [kind |-> "invalid character", char |-> char]

\* base58Decode's constant:
\* const alphabet = "123456789ABCDEFGHJKLMNPQRSTUVWXYZabcdefghijkmnopqrstuvwxyz"
alphabet ==
    << 49, 50, 51, 52, 53, 54, 55, 56, 57,                          \* 1-9
       65, 66, 67, 68, 69, 70, 71, 72,                              \* A-H
       74, 75, 76, 77, 78,                                          \* J-N
       80, 81, 82, 83, 84, 85, 86, 87, 88, 89, 90,                  \* P-Z
       97, 98, 99, 100, 101, 102, 103, 104, 105, 106, 107,          \* a-k
       109, 110, 111, 112, 113, 114, 115, 116, 117, 118, 119, 120,
       121, 122 >>                                                  \* m-z

\* the character literal '1'
CharOne == 49

\* ------------------------------------------------------------------------
\* base58Decode
\* ------------------------------------------------------------------------

\* mutant: the map stores the 1-based position of the character
RECURSIVE BuildDecodeOffByOne(_, _)
BuildDecodeOffByOne(i, m) ==
    IF i > Len(alphabet) THEN m
    ELSE BuildDecodeOffByOne(i + 1, (alphabet[i] :> i) @@ m)

\* decode := make(map[byte]int); for i, c := range alphabet { decode[byte(c)] = i }
\* (i is the TLA+ index, the value stored is the Go index i - 1; an
\* assignment to a key already in the map replaces its value)
RECURSIVE BuildDecode(_, _)
BuildDecode(i, m) ==
    IF i > Len(alphabet) THEN m
    ELSE BuildDecode(i + 1, (alphabet[i] :> (i - 1)) @@ m)

\* mutant: the map is built from an alphabet that still has '0', 'O', 'I', 'l'
\* (they take the values of '1', 'P', 'J', 'm')
decodeWithAmbiguous ==
    (48 :> 0) @@ (79 :> 22) @@ (73 :> 17) @@ (108 :> 44) @@ BuildDecode(1, <<>>)

\* the decode map of base58Decode
decode == BuildDecode(1, <<>>)

\* mutant: the loop compares with '0' instead of '1'
RECURSIVE leadingOnesZeroChar(_)
leadingOnesZeroChar(s) ==
    IF Len(s) > 0 /\ s[1] = 48 THEN 1 + leadingOnesZeroChar(Tail(s)) ELSE 0

\* for i := lo; i <= hi && q[i] == x; i++ { n++ }: the n it counts
RECURSIVE LeadingRun(_, _, _, _)
LeadingRun(q, x, lo, hi) ==
    IF lo > hi THEN 0
    ELSE IF lo = hi THEN (IF q[lo] = x THEN 1 ELSE 0)
    ELSE LET mid  == (lo + hi) \div 2
             left == LeadingRun(q, x, lo, mid)
         IN  IF left < mid - lo + 1 THEN left
             ELSE left + LeadingRun(q, x, mid + 1, hi)

\* leadingOnes := 0; for i := 0; i < len(s) && s[i] == '1'; i++ { leadingOnes++ }
leadingOnes(s) == LeadingRun(s, CharOne, 1, Len(s))

\* for j := 0; j < len(result); j++ {
\*     carry += int(result[j]) * 58; result[j] = byte(carry % 256); carry /= 256 }
\* from position j on; yields the buffer and the carry left
RECURSIVE DecodeMulRange(_, _, _, _)
DecodeMulRange(result, carry, lo, hi) ==
    IF lo > hi THEN [result |-> result, carry |-> carry]
    ELSE IF lo = hi
    THEN LET c == carry + result[lo] * 58
         IN  [result |-> [result EXCEPT ![lo] = c % 256], carry |-> c \div 256]
    ELSE LET mid == (lo + hi) \div 2
             m   == DecodeMulRange(result, carry, lo, mid)
         IN  IF m.carry >= 0 THEN DecodeMulRange(m.result, m.carry, mid + 1, hi)
             ELSE m

DecodeMul(result, carry, j) == DecodeMulRange(result, carry, j, Len(result))

\* mutant: the loop appends a byte before it tests carry
RECURSIVE DecodeGrowAppendFirst(_, _)
DecodeGrowAppendFirst(result, carry) ==
    IF carry >= 256
    THEN DecodeGrowAppendFirst(Append(result, carry % 256), carry \div 256)
    ELSE Append(result, carry % 256)

\* for carry > 0 { result = append(result, byte(carry%256)); carry /= 256 }
RECURSIVE DecodeGrow(_, _)
DecodeGrow(result, carry) ==
    IF carry > 0 THEN DecodeGrow(Append(result, carry % 256), carry \div 256)
    ELSE result

\* mutant: the characters are taken from the last one to the one after the
\* leading '1's
RECURSIVE DecodeLoopBackward(_, _, _)
DecodeLoopBackward(s, i, result) ==
    IF i > Len(s) THEN [bytes |-> result, err |-> nil]
    ELSE LET char == s[Len(s) + leadingOnes(s) + 1 - i]
         IN  IF char \notin DOMAIN decode
             THEN [bytes |-> <<>>, err |-> InvalidCharacter(char)]
             ELSE LET m == DecodeMul(result, decode[char], 1)
                  IN  DecodeLoopBackward(s, i + 1, DecodeGrow(m.result, m.carry))

\* mutant: the bytes built so far are returned with the error
RECURSIVE DecodeLoopRangeKeepingBytes(_, _, _, _)
DecodeLoopRangeKeepingBytes(s, lo, hi, result) ==
    IF lo > hi THEN [bytes |-> result, err |-> nil]
    ELSE IF lo = hi
    THEN LET char == s[lo]
         IN  IF char \notin DOMAIN decode
             THEN [bytes |-> result, err |-> InvalidCharacter(char)]
             ELSE LET m == DecodeMul(result, decode[char], 1)
                  IN  [bytes |-> DecodeGrow(m.result, m.carry), err |-> nil]
    ELSE LET mid  == (lo + hi) \div 2
             left == DecodeLoopRangeKeepingBytes(s, lo, mid, result)
         IN  IF left.err # nil THEN left
             ELSE DecodeLoopRangeKeepingBytes(s, mid + 1, hi, left.bytes)

\* for i := leadingOnes; i < len(s); i++ { ... }, from character i on, the
\* little-endian buffer being result: the buffer after the last character,
\* or no bytes and the error at the first character that is not in the map
RECURSIVE DecodeLoopRange(_, _, _, _)
DecodeLoopRange(s, lo, hi, result) ==
    IF lo > hi THEN [bytes |-> result, err |-> nil]
    ELSE IF lo = hi
    THEN LET char == s[lo]
         IN  IF char \notin DOMAIN decode
             THEN [bytes |-> <<>>, err |-> InvalidCharacter(char)]
             ELSE LET m == DecodeMul(result, decode[char], 1)
                  IN  [bytes |-> DecodeGrow(m.result, m.carry), err |-> nil]
    ELSE LET mid  == (lo + hi) \div 2
             left == DecodeLoopRange(s, lo, mid, result)
         IN  IF left.err # nil THEN left
             ELSE DecodeLoopRange(s, mid + 1, hi, left.bytes)

DecodeLoop(s, i, result) == DecodeLoopRange(s, i, Len(s), result)

\* mutant: the loop starts at i := 1
RECURSIVE AppendZerosFromOne(_, _)
AppendZerosFromOne(result, n) ==
    IF n > 1 THEN AppendZerosFromOne(Append(result, 0), n - 1) ELSE result

\* for i := 0; i < n; i++ { result = append(result, 0) }
AppendZeros(result, n) == result \o [k \in 1..n |-> 0]

\* mutant: the loop runs while i <= len(result)/2
RECURSIVE ReverseInclusive(_, _)
ReverseInclusive(result, i) ==
    IF i > Len(result) \div 2 + 1 \/ i > Len(result) THEN result
    ELSE ReverseInclusive([result EXCEPT ![i] = result[Len(result) + 1 - i],
                                         ![Len(result) + 1 - i] = result[i]], i + 1)

\* for i := 0; i < len(result)/2; i++ {
\*     result[i], result[len(result)-1-i] = result[len(result)-1-i], result[i] }
RECURSIVE ReverseRange(_, _, _)
ReverseRange(result, lo, hi) ==
    IF lo > hi THEN result
    ELSE IF lo = hi
    THEN [result EXCEPT ![lo] = result[Len(result) + 1 - lo],
                        ![Len(result) + 1 - lo] = result[lo]]
    ELSE LET mid  == (lo + hi) \div 2
             left == ReverseRange(result, lo, mid)
         IN  IF Len(left) = Len(result) THEN ReverseRange(left, mid + 1, hi)
             ELSE left

Reverse(result, i) == ReverseRange(result, i, Len(result) \div 2)

\* mutant: the empty string is rejected
DecodeEmptyRejected == [bytes |-> <<>>, err |-> [kind |-> "empty input"]]

\* if len(s) == 0 { return []byte{}, nil }
DecodeEmpty == [bytes |-> <<>>, err |-> nil]

\* base58Decode(s): the pair (bytes, err) it returns
base58Decode(s) ==
    IF Len(s) = 0 THEN DecodeEmpty
    ELSE LET n == leadingOnes(s)
             r == DecodeLoop(s, n + 1, <<>>)
         IN  IF r.err # nil THEN r
             ELSE [bytes |-> Reverse(AppendZeros(r.bytes, n), 1), err |-> nil]

\* ------------------------------------------------------------------------
\* base58Encode
\* ------------------------------------------------------------------------

\* leadingZeros := 0; for i := 0; i < len(input) && input[i] == 0; i++ { leadingZeros++ }
leadingZeros(input) == LeadingRun(input, 0, 1, Len(input))

\* mutant: the buffer is multiplied by 58, as in the decoder
RECURSIVE EncodeMulBy58(_, _, _)
EncodeMulBy58(result, carry, j) ==
    IF j > Len(result) THEN [result |-> result, carry |-> carry]
    ELSE LET c == carry + result[j] * 58
         IN  EncodeMulBy58([result EXCEPT ![j] = c % 58], c \div 58, j + 1)

\* for j := 0; j < len(result); j++ {
\*     carry += int(result[j]) * 256; result[j] = byte(carry % 58); carry /= 58 }
RECURSIVE EncodeMulRange(_, _, _, _)
EncodeMulRange(result, carry, lo, hi) ==
    IF lo > hi THEN [result |-> result, carry |-> carry]
    ELSE IF lo = hi
    THEN LET c == carry + result[lo] * 256
         IN  [result |-> [result EXCEPT ![lo] = c % 58], carry |-> c \div 58]
    ELSE LET mid == (lo + hi) \div 2
             m   == EncodeMulRange(result, carry, lo, mid)
         IN  IF m.carry >= 0 THEN EncodeMulRange(m.result, m.carry, mid + 1, hi)
             ELSE m

EncodeMul(result, carry, j) == EncodeMulRange(result, carry, j, Len(result))

\* mutant: the decoder's loop, in base 256
RECURSIVE EncodeGrowBase256(_, _)
EncodeGrowBase256(result, carry) ==
    IF carry > 0 THEN EncodeGrowBase256(Append(result, carry % 256), carry \div 256)
    ELSE result

\* for carry > 0 { result = append(result, byte(carry%58)); carry /= 58 }
RECURSIVE EncodeGrow(_, _)
EncodeGrow(result, carry) ==
    IF carry > 0 THEN EncodeGrow(Append(result, carry % 58), carry \div 58)
    ELSE result

\* for i := leadingZeros; i < len(input); i++ { carry := int(input[i]); ... }
RECURSIVE EncodeLoopRange(_, _, _, _)
EncodeLoopRange(input, lo, hi, result) ==
    IF lo > hi THEN result
    ELSE IF lo = hi
    THEN LET m == EncodeMul(result, input[lo], 1)
         IN  EncodeGrow(m.result, m.carry)
    ELSE LET mid  == (lo + hi) \div 2
             left == EncodeLoopRange(input, lo, mid, result)
         IN  IF Len(left) >= Len(result)
             THEN EncodeLoopRange(input, mid + 1, hi, left)
             ELSE left

EncodeLoop(input, i, result) == EncodeLoopRange(input, i, Len(input), result)

\* mutant: the loop starts at i := 1
RECURSIVE AppendOnesFromOne(_, _)
AppendOnesFromOne(encoded, n) ==
    IF n > 1 THEN AppendOnesFromOne(Append(encoded, CharOne), n - 1) ELSE encoded

\* for i := 0; i < n; i++ { encoded = append(encoded, '1') }
AppendOnes(encoded, n) == encoded \o [k \in 1..n |-> CharOne]

\* mutant: the encoder's literal has the lower-case letters before the
\* upper-case ones
encodeAlphabetLowerFirst ==
    << 49, 50, 51, 52, 53, 54, 55, 56, 57,
       97, 98, 99, 100, 101, 102, 103, 104, 105, 106, 107,
       109, 110, 111, 112, 113, 114, 115, 116, 117, 118, 119, 120,
       121, 122,
       65, 66, 67, 68, 69, 70, 71, 72,
       74, 75, 76, 77, 78,
       80, 81, 82, 83, 84, 85, 86, 87, 88, 89, 90 >>

\* base58Encode's own constant:
\* const alphabet = "123456789ABCDEFGHJKLMNPQRSTUVWXYZabcdefghijkmnopqrstuvwxyz"
encodeAlphabet ==
    << 49, 50, 51, 52, 53, 54, 55, 56, 57,                          \* 1-9
       65, 66, 67, 68, 69, 70, 71, 72,                              \* A-H
       74, 75, 76, 77, 78,                                          \* J-N
       80, 81, 82, 83, 84, 85, 86, 87, 88, 89, 90,                  \* P-Z
       97, 98, 99, 100, 101, 102, 103, 104, 105, 106, 107,          \* a-k
       109, 110, 111, 112, 113, 114, 115, 116, 117, 118, 119, 120,
       121, 122 >>                                                  \* m-z

\* the index expression alphabet[d] of base58Encode; an index outside the
\* string is a run-time panic, written -1
AlphabetAt(d) ==
    IF d >= 0 /\ d < Len(encodeAlphabet) THEN encodeAlphabet[d + 1] ELSE -1

\* mutant: the digits are emitted in buffer order, least significant first
RECURSIVE AppendDigitsForward(_, _, _)
AppendDigitsForward(encoded, result, i) ==
    IF i < 1 THEN encoded
    ELSE AppendDigitsForward(Append(encoded, AlphabetAt(result[Len(result) + 1 - i])),
                             result, i - 1)

\* for i := len(result) - 1; i >= 0; i-- { encoded = append(encoded, alphabet[result[i]]) }
AppendDigits(encoded, result, i) ==
    encoded \o [k \in 1..i |-> AlphabetAt(result[i + 1 - k])]

\* mutant: the empty input is encoded as the zero digit
EncodeEmptyAsOne == <<CharOne>>

\* if len(input) == 0 { return "" }
EncodeEmpty == <<>>

\* base58Encode(input): the string it returns
base58Encode(input) ==
    IF Len(input) = 0 THEN EncodeEmpty
    ELSE LET n == leadingZeros(input)
             result == EncodeLoop(input, n + 1, <<>>)
         IN  AppendDigits(AppendOnes(<<>>, n), result, Len(result))

\* ------------------------------------------------------------------------
\* Library functions the program calls
\* ------------------------------------------------------------------------

\* strings.TrimSpace on an ASCII string: the white space characters
\* '\t', '\n', '\v', '\f', '\r', ' ' are cut from both ends
IsSpace(c) == c \in {9, 10, 11, 12, 13, 32}

RECURSIVE TrimLeft(_)
TrimLeft(s) == IF Len(s) > 0 /\ IsSpace(s[1]) THEN TrimLeft(Tail(s)) ELSE s

RECURSIVE TrimRight(_)
TrimRight(s) ==
    IF Len(s) > 0 /\ IsSpace(s[Len(s)]) THEN TrimRight(SubSeq(s, 1, Len(s) - 1))
    ELSE s

TrimSpace(s) == TrimRight(TrimLeft(s))

\* strings.ReplaceAll(s, old, new) for a non-empty old: the occurrences of
\* old are replaced from left to right, without overlap
RECURSIVE ReplaceAll(_, _, _)
ReplaceAll(s, old, new) ==
    IF Len(s) < Len(old) THEN s
    ELSE IF SubSeq(s, 1, Len(old)) = old
         THEN new \o ReplaceAll(SubSeq(s, Len(old) + 1, Len(s)), old, new)
         ELSE <<s[1]>> \o ReplaceAll(Tail(s), old, new)

\* the sum of the elements of q
RECURSIVE SumOf(_)
SumOf(q) == IF Len(q) = 0 THEN 0 ELSE q[1] + SumOf(Tail(q))

\* the public key ed25519 derives from a seed: 32 bytes, a function of the
\* seed alone (the curve arithmetic is replaced by a fixed byte mixing)
PublicKeyOf(seed) == [i \in 1..32 |-> (5 * seed[33 - i] + 7 * i + 1) % 256]

\* ed25519.NewKeyFromSeed(seed): the 64-byte private key, the seed followed
\* by its public key; a seed that is not 32 bytes long is a run-time panic,
\* written <<-1>>
NewKeyFromSeed(seed) ==
    IF Len(seed) # 32 THEN <<-1>> ELSE seed \o PublicKeyOf(seed)

\* privateKey.Public(): the last 32 bytes of the 64; a key that is shorter is
\* a run-time panic, written <<-1>>
Public(priv) == IF Len(priv) < 64 THEN <<-1>> ELSE SubSeq(priv, 33, 64)

\* ed25519.Sign(privateKey, message): a 64-byte signature, a function of the
\* key and the message alone (the signature arithmetic is replaced by a fixed
\* byte mixing); a key that is not 64 bytes long is a run-time panic, written
\* <<-1>>
Sign(privateKey, message) ==
    IF Len(privateKey) # 64 THEN <<-1>>
    ELSE [i \in 1..64 |->
             (privateKey[i] + 3 * SumOf(message) + Len(message) + 11 * i) % 256]

\* the digits of hex.EncodeToString: "0123456789abcdef"
hextable == <<48, 49, 50, 51, 52, 53, 54, 55, 56, 57, 97, 98, 99, 100, 101, 102>>

\* hex.EncodeToString(src): two digits for each byte, the high one first
HexEncodeToString(src) ==
    [k \in 1..(2 * Len(src)) |->
        IF k % 2 = 1 THEN hextable[(src[(k + 1) \div 2] \div 16) + 1]
        ELSE hextable[(src[k \div 2] % 16) + 1]]

\* the alphabet of base64.StdEncoding: A-Z, a-z, 0-9, '+', '/'
encodeStd ==
    [i \in 1..64 |->
        IF i <= 26 THEN 64 + i
        ELSE IF i <= 52 THEN 70 + i
        ELSE IF i <= 62 THEN i - 5
        ELSE IF i = 63 THEN 43 ELSE 47]

\* base64.StdEncoding.EncodeToString(src): four characters for three bytes,
\* the last group padded with '='
RECURSIVE Base64EncodeToString(_)
Base64EncodeToString(src) ==
    IF Len(src) = 0 THEN <<>>
    ELSE IF Len(src) = 1
    THEN <<encodeStd[(src[1] \div 4) + 1], encodeStd[(src[1] % 4) * 16 + 1], 61, 61>>
    ELSE IF Len(src) = 2
    THEN <<encodeStd[(src[1] \div 4) + 1],
           encodeStd[(src[1] % 4) * 16 + (src[2] \div 16) + 1],
           encodeStd[(src[2] % 16) * 4 + 1], 61>>
    ELSE <<encodeStd[(src[1] \div 4) + 1],
           encodeStd[(src[1] % 4) * 16 + (src[2] \div 16) + 1],
           encodeStd[(src[2] % 16) * 4 + (src[3] \div 64) + 1],
           encodeStd[(src[3] % 64) + 1]>>
             \o Base64EncodeToString(SubSeq(src, 4, Len(src)))

\* the value (0..63) of a character of the base64 alphabet
Base64Value(c) == (CHOOSE i \in 1..64 : encodeStd[i] = c) - 1

\* base64.StdEncoding.DecodeString(s) for a string without line breaks: the
\* bytes, or an error when a group is incomplete or has a character that is
\* not of the alphabet or a pad that is not at the end
RECURSIVE Base64DecodeString(_)
Base64DecodeString(s) ==
    LET bad == [bytes |-> <<>>, err |-> [kind |-> "illegal base64 data"]]
        in64(c) == \E i \in 1..64 : encodeStd[i] = c
    IN
    IF Len(s) = 0 THEN [bytes |-> <<>>, err |-> nil]
    ELSE IF Len(s) < 4 \/ ~in64(s[1]) \/ ~in64(s[2]) THEN bad
    ELSE LET a == Base64Value(s[1])
             b == Base64Value(s[2])
         IN  IF s[3] = 61
             THEN IF s[4] = 61 /\ Len(s) = 4
                  THEN [bytes |-> <<a * 4 + (b \div 16)>>, err |-> nil]
                  ELSE bad
             ELSE IF ~in64(s[3]) THEN bad
             ELSE LET c == Base64Value(s[3]) IN
                  IF s[4] = 61
                  THEN IF Len(s) = 4
                       THEN [bytes |-> <<a * 4 + (b \div 16), (b % 16) * 16 + (c \div 4)>>,
                             err |-> nil]
                       ELSE bad
                  ELSE IF ~in64(s[4]) THEN bad
                  ELSE LET d    == Base64Value(s[4])
                           rest == Base64DecodeString(SubSeq(s, 5, Len(s)))
                       IN  IF rest.err # nil THEN bad
                           ELSE [bytes |-> <<a * 4 + (b \div 16),
                                             (b % 16) * 16 + (c \div 4),
                                             (c % 4) * 64 + d>> \o rest.bytes,
                                 err |-> nil]

\* json.Unmarshal(data, &keyBytes) with keyBytes a nil []byte.  The file's
\* text is given by the JSON value it holds: "malformed" (not JSON), "null",
\* "object", "array" (of the integers elems) or "string" (of the characters
\* text).  An array of integers 0..255 gives those bytes, a string gives its
\* base64 decoding, null leaves keyBytes nil; anything else is an error
Unmarshal(data) ==
    IF data.json = "array"
    THEN IF \A i \in 1..Len(data.elems) : data.elems[i] \in Byte
         THEN [bytes |-> data.elems, err |-> nil]
         ELSE [bytes |-> <<>>, err |-> [kind |-> "json: cannot unmarshal"]]
    ELSE IF data.json = "string"
    THEN LET d == Base64DecodeString(data.text)
         IN  IF d.err = nil THEN d
             ELSE [bytes |-> <<>>, err |-> d.err]
    ELSE IF data.json = "null" THEN [bytes |-> <<>>, err |-> nil]
    ELSE IF data.json = "object"
    THEN [bytes |-> <<>>, err |-> [kind |-> "json: cannot unmarshal"]]
    ELSE [bytes |-> <<>>, err |-> [kind |-> "json: syntax error"]]

\* ------------------------------------------------------------------------
\* The command-line program: its pure functions
\* ------------------------------------------------------------------------

\* the seed is taken from the second half
SeedOfSecondHalf(keyBytes) == SubSeq(keyBytes, Len(keyBytes) - 31, Len(keyBytes))

\* decoded[:32] and keyBytes[:32]: the first 32 bytes
SeedOf(keyBytes) == SubSeq(keyBytes, 1, 32)

\* for every length but 32 and 64 the switch takes the first 32 bytes
KeyFromDecodedAnyLength(d) ==
    IF Len(d) >= 32
    THEN [key |-> NewKeyFromSeed(SeedOf(d)), err |-> nil]
    ELSE [key |-> <<>>,
          err |-> [kind |-> "invalid private key length", got |-> Len(d)]]

\* switch len(decoded): 32 bytes are a seed, 64 bytes a seed followed by a
\* public key, any other length is an error
KeyFromDecoded(d) ==
    IF Len(d) = 32 THEN [key |-> NewKeyFromSeed(d), err |-> nil]
    ELSE IF Len(d) = 64 THEN [key |-> NewKeyFromSeed(SeedOf(d)), err |-> nil]
    ELSE [key |-> <<>>,
          err |-> [kind |-> "invalid private key length", got |-> Len(d)]]

\* loadKeypairFromString(privateKeyStr): the pair (key, err); a nil key is <<>>
loadKeypairFromString(privateKeyStr) ==
    LET d == base58Decode(TrimSpace(privateKeyStr))
    IN  IF d.err # nil
        THEN [key |-> <<>>,
              err |-> [kind  |-> "failed to decode private key as base58",
                       wraps |-> d.err]]
        ELSE KeyFromDecoded(d.bytes)

\* a path is a string; '/' is 47, '~' is 126
Slash == 47

Tilde == 126

\* the seeds of the keys the program is run with
Seed == [i \in 1..32 |-> (7 * i + 3) % 256]

OtherSeed == [i \in 1..32 |-> (11 * i + 2) % 256]

\* 32 bytes that are not the public key of Seed
ForeignHalf == [i \in 1..32 |-> (3 * i) % 256]

\* "/k64", "/k64x", "/k32", "/bad", "/none", "/deny", "/b64", "/null",
\* "/big", "~/k", "/h/k", "/h"
PathFull == <<47, 107, 54, 52>>

PathForeignHalf == <<47, 107, 54, 52, 120>>

PathSeedOnly == <<47, 107, 51, 50>>

PathMalformed == <<47, 98, 97, 100>>

PathMissing == <<47, 110, 111, 110, 101>>

PathUnreadable == <<47, 100, 101, 110, 121>>

PathBase64 == <<47, 98, 54, 52>>

PathNull == <<47, 110, 117, 108, 108>>

PathBig == <<47, 98, 105, 103>>

PathTilde == <<126, 47, 107>>

PathInHome == <<47, 104, 47, 107>>

HomeDir == <<47, 104>>

\* "/msg" holds "hi\n", "/empty" holds nothing, "/nomsg" does not exist
PathMessage == <<47, 109, 115, 103>>

PathEmptyMessage == <<47, 101, 109, 112, 116, 121>>

PathNoMessage == <<47, 110, 111, 109, 115, 103>>

\* the base58 string of Seed: 32 bytes
KeySeed ==
    <<103, 74, 67, 75, 101, 74, 84, 114, 98, 118, 110, 75, 111, 106, 83,
      81, 120, 84, 114, 83, 118, 88, 97, 76, 80, 53, 74, 83, 52, 74, 100,
      89, 110, 97, 70, 107, 83, 117, 68, 105, 50, 110, 101>>

\* the base58 string of Seed \o PublicKeyOf(Seed): 64 bytes
KeyFull ==
    <<67, 103, 52, 99, 117, 77, 102, 84, 98, 65, 50, 110, 82, 112, 122,
      74, 107, 98, 107, 98, 120, 87, 70, 86, 54, 52, 52, 110, 90, 69, 122,
      121, 72, 88, 78, 80, 107, 72, 104, 70, 57, 86, 69, 110, 70, 112,
      120, 82, 76, 107, 66, 107, 114, 109, 55, 107, 89, 98, 115, 117, 76,
      118, 80, 87, 119, 97, 67, 98, 89, 100, 52, 52, 114, 67, 88, 75, 76,
      56, 109, 89, 115, 88, 113, 80, 84, 65, 114>>

\* the base58 string of Seed \o ForeignHalf: 64 bytes whose second half is not
\* the public key of the first
KeyForeignHalf ==
    <<67, 103, 52, 99, 117, 77, 102, 84, 98, 65, 50, 110, 82, 112, 122,
      74, 107, 98, 107, 98, 120, 87, 70, 86, 54, 52, 52, 110, 90, 69, 122,
      121, 72, 88, 78, 80, 107, 72, 104, 70, 57, 86, 69, 101, 82, 105, 74,
      85, 86, 90, 114, 116, 53, 82, 74, 49, 82, 114, 119, 118, 70, 84, 82,
      72, 85, 112, 50, 98, 118, 50, 77, 101, 53, 87, 85, 76, 66, 121, 68,
      66, 101, 55, 66, 49, 107, 98, 49>>

\* the base58 string of <<1, 2, 3, 4, 5>>
KeyFiveBytes ==
    <<55, 98, 87, 112, 84, 87>>

\* the base58 string of the first 31 bytes of Seed
Key31 ==
    <<57, 117, 80, 51, 115, 57, 51, 49, 78, 52, 56, 54, 99, 120, 113, 77,
      80, 53, 106, 49, 116, 89, 114, 69, 117, 97, 98, 109, 67, 65, 116,
      75, 121, 122, 113, 67, 102, 51, 75, 72, 89, 102>>

\* the base58 string of Seed \o <<9>>: 33 bytes
Key33 ==
    <<51, 122, 83, 116, 121, 72, 101, 53, 88, 119, 65, 80, 52, 49, 71, 75,
      65, 106, 111, 88, 70, 82, 70, 120, 56, 89, 82, 121, 119, 98, 97,
      112, 75, 74, 57, 110, 54, 109, 75, 86, 54, 54, 116, 83, 85>>

\* the base58 string of Seed \o PublicKeyOf(Seed) \o <<9>>: 65 bytes
Key65 ==
    <<116, 88, 81, 121, 85, 54, 67, 107, 77, 107, 114, 115, 87, 97, 111,
      119, 77, 83, 80, 84, 72, 122, 54, 118, 121, 74, 88, 105, 53, 74,
      110, 115, 82, 119, 51, 82, 81, 52, 103, 100, 83, 84, 100, 112, 107,
      83, 102, 99, 83, 57, 99, 85, 97, 100, 105, 111, 67, 85, 119, 103,
      50, 118, 101, 80, 57, 115, 89, 66, 85, 97, 56, 88, 122, 57, 114,
      111, 117, 84, 72, 100, 103, 51, 54, 97, 54, 87, 84, 83>>

\* base64 of OtherSeed \o PublicKeyOf(OtherSeed), as json.Marshal writes a []byte
Base64OfOtherFull ==
    <<68, 82, 103, 106, 76, 106, 108, 69, 84, 49, 112, 108, 99, 72, 117,
      71, 107, 90, 121, 110, 115, 114, 51, 73, 48, 57, 55, 112, 57, 80,
      56, 75, 70, 83, 65, 114, 78, 107, 70, 77, 86, 50, 76, 121, 119, 112,
      74, 105, 77, 103, 76, 83, 111, 110, 74, 67, 69, 117, 75, 121, 103,
      108, 73, 105, 56, 115, 75, 83, 89, 106, 73, 67, 48, 113, 74, 121,
      81, 104, 76, 105, 115, 111, 74, 83, 73, 103, 61, 61>>
NoFile == [exists |-> FALSE, readable |-> FALSE, data |-> <<>>]

\* the files of the machine the program runs on: whether the path exists,
\* whether it can be read, and what it holds (a key file by the JSON value
\* it holds, a message file by its bytes)
FileAt(path) ==
    CASE path = PathFull ->
           [exists |-> TRUE, readable |-> TRUE,
            data |-> [json |-> "array", elems |-> Seed \o PublicKeyOf(Seed)]]
      [] path = PathForeignHalf ->
           [exists |-> TRUE, readable |-> TRUE,
            data |-> [json |-> "array", elems |-> Seed \o ForeignHalf]]
      [] path = PathSeedOnly ->
           [exists |-> TRUE, readable |-> TRUE,
            data |-> [json |-> "array", elems |-> Seed]]
      [] path = PathMalformed ->
           [exists |-> TRUE, readable |-> TRUE, data |-> [json |-> "malformed"]]
      [] path = PathUnreadable ->
           [exists |-> TRUE, readable |-> FALSE, data |-> <<>>]
      [] path = PathBase64 ->
           [exists |-> TRUE, readable |-> TRUE,
            data |-> [json |-> "string", text |-> Base64OfOtherFull]]
      [] path = PathNull ->
           [exists |-> TRUE, readable |-> TRUE, data |-> [json |-> "null"]]
      [] path = PathBig ->
           [exists |-> TRUE, readable |-> TRUE,
            data |-> [json |-> "array",
                      elems |-> [i \in 1..64 |-> IF i = 64 THEN 256 ELSE i]]]
      [] path = PathInHome ->
           [exists |-> TRUE, readable |-> TRUE,
            data |-> [json |-> "array",
                      elems |-> OtherSeed \o PublicKeyOf(OtherSeed)]]
      [] path = PathMessage ->
           [exists |-> TRUE, readable |-> TRUE, data |-> <<104, 105, 10>>]
      [] path = PathEmptyMessage ->
           [exists |-> TRUE, readable |-> TRUE, data |-> <<>>]
      [] OTHER -> NoFile

\* os.ReadFile(path): the pair (data, err)
ReadFile(path) ==
    IF ~FileAt(path).exists
    THEN [data |-> <<>>, err |-> [kind |-> "no such file or directory"]]
    ELSE IF ~FileAt(path).readable
    THEN [data |-> <<>>, err |-> [kind |-> "permission denied"]]
    ELSE [data |-> FileAt(path).data, err |-> nil]

\* a key file of 32 bytes or more is accepted
WrongKeypairLengthBelow32(keyBytes) == Len(keyBytes) < 32

\* if len(keyBytes) != 64
WrongKeypairLength(keyBytes) == Len(keyBytes) # 64

\* loadKeypairFromFile(path): the pair (key, err); a nil key is <<>>
loadKeypairFromFile(path) ==
    IF ~FileAt(path).exists
    THEN [key |-> <<>>,
          err |-> [kind |-> "keypair file does not exist", path |-> path]]
    ELSE LET r == ReadFile(path)
         IN  IF r.err # nil
             THEN [key |-> <<>>,
                   err |-> [kind |-> "failed to read keypair file",
                            wraps |-> r.err]]
             ELSE LET u == Unmarshal(r.data)
                  IN  IF u.err # nil
                      THEN [key |-> <<>>,
                            err |-> [kind  |-> "failed to parse keypair JSON",
                                     wraps |-> u.err]]
                      ELSE IF WrongKeypairLength(u.bytes)
                      THEN [key |-> <<>>,
                            err |-> [kind |-> "invalid keypair length",
                                     got  |-> Len(u.bytes)]]
                      ELSE [key |-> NewKeyFromSeed(SeedOf(u.bytes)),
                            err |-> nil]

\* processEscapeSequences(input): six replacements, one after the other;
\* '\\' is 92, 'n' 110, 't' 116, 'r' 114, '"' 34, '\'' 39
processEscapeSequences(str) ==
    LET r1 == ReplaceAll(str, <<92, 110>>, <<10>>)
        r2 == ReplaceAll(r1, <<92, 116>>, <<9>>)
        r3 == ReplaceAll(r2, <<92, 114>>, <<13>>)
        r4 == ReplaceAll(r3, <<92, 92>>, <<92>>)
        r5 == ReplaceAll(r4, <<92, 34>>, <<34>>)
    IN  ReplaceAll(r5, <<92, 39>>, <<39>>)

\* filepath.IsAbs(path) on a Unix system
IsAbs(path) == Len(path) > 0 /\ path[1] = Slash

\* filepath.Clean for a path without "." and ".." elements: repeated
\* separators become one and a trailing separator is dropped
RECURSIVE Clean(_)
Clean(path) ==
    IF Len(path) = 0 THEN <<46>>
    ELSE IF Len(path) = 1 THEN path
    ELSE IF path[1] = Slash /\ path[2] = Slash THEN Clean(Tail(path))
    ELSE IF Len(path) = 2 /\ path[2] = Slash THEN <<path[1]>>
    ELSE LET rest == Clean(Tail(path))
         IN  IF rest = <<Slash>> THEN <<path[1]>> ELSE <<path[1]>> \o rest

\* filepath.Join(dir, rest): the non-empty elements joined by a separator,
\* then cleaned
Join(dir, rest) ==
    IF Len(dir) = 0 /\ Len(rest) = 0 THEN <<>>
    ELSE IF Len(dir) = 0 THEN Clean(rest)
    ELSE IF Len(rest) = 0 THEN Clean(dir)
    ELSE Clean(dir \o <<Slash>> \o rest)

\* ------------------------------------------------------------------------
\* The encoder of the test file (func base58Encode(data []byte) string)
\* ------------------------------------------------------------------------

\* the test helper's own constant:
\* const alphabet = "123456789ABCDEFGHJKLMNPQRSTUVWXYZabcdefghijkmnopqrstuvwxyz"
testAlphabet ==
    << 49, 50, 51, 52, 53, 54, 55, 56, 57,                          \* 1-9
       65, 66, 67, 68, 69, 70, 71, 72,                              \* A-H
       74, 75, 76, 77, 78,                                          \* J-N
       80, 81, 82, 83, 84, 85, 86, 87, 88, 89, 90,                  \* P-Z
       97, 98, 99, 100, 101, 102, 103, 104, 105, 106, 107,          \* a-k
       109, 110, 111, 112, 113, 114, 115, 116, 117, 118, 119, 120,
       121, 122 >>                                                  \* m-z

\* i := 0; for i < len(input) && input[i] == 0 { i++ }; input = input[i:]
TestSkipZeros(input) ==
    SubSeq(input, LeadingRun(input, 0, 1, Len(input)) + 1, Len(input))

\* mutant: the remainder is carried into the next byte as a base-58 digit
RECURSIVE TestDivideCarry58(_, _, _)
TestDivideCarry58(input, i, remainder) ==
    IF i > Len(input) THEN [input |-> input, remainder |-> remainder]
    ELSE LET temp == remainder * 58 + input[i]
         IN  TestDivideCarry58([input EXCEPT ![i] = (temp \div 58) % 256], i + 1,
                               temp % 58)

\* remainder := 0; for i := 0; i < len(input); i++ { temp := remainder*256 +
\* int(input[i]); input[i] = byte(temp / 58); remainder = temp % 58 }
RECURSIVE TestDivide(_, _, _)
TestDivide(input, i, remainder) ==
    IF i > Len(input) THEN [input |-> input, remainder |-> remainder]
    ELSE LET temp == remainder * 256 + input[i]
         IN  TestDivide([input EXCEPT ![i] = (temp \div 58) % 256], i + 1,
                        temp % 58)

\* for len(input) > 0 { skip the zeros; if len(input) == 0 { break }; divide
\* by 58; result = append([]byte{alphabet[remainder]}, result...) }
RECURSIVE TestConvert(_, _)
TestConvert(input, result) ==
    LET rest == TestSkipZeros(input)
    IN  IF Len(rest) = 0 THEN result
        ELSE LET d == TestDivide(rest, 1, 0)
             IN  TestConvert(d.input, <<testAlphabet[d.remainder + 1]>> \o result)

\* for i := 0; i < leadingZeros; i++ { result = append([]byte{'1'}, result...) }
TestPrependOnes(result, n) == [k \in 1..n |-> CharOne] \o result

\* the test file's base58Encode
base58EncodeTest(data) ==
    IF Len(data) = 0 THEN <<>>
    ELSE TestPrependOnes(TestConvert(data, <<>>), LeadingRun(data, 0, 1, Len(data)))

\* ------------------------------------------------------------------------
\* The calls
\* ------------------------------------------------------------------------

\* the byte values the inputs are built from
ByteVals == {0, 1, 5, 57, 58, 255}

\* the characters the inputs are built from: '1', '2', 'z' and the four
\* characters left out of the alphabet, '0', 'O', 'I', 'l'
CharVals == {49, 50, 122, 48, 79, 73, 108}

\* the byte sequences encoded: short ones over ByteVals, and every single byte
ByteInputs == SeqUpTo(ByteVals, MaxBytesLen) \cup {<<v>> : v \in Byte}

\* the strings decoded: short ones over CharVals, and every single character
StrInputs == SeqUpTo(CharVals, MaxStrLen) \cup {<<c>> : c \in Byte}

VARIABLES
    pc,        \* which calls have been made
    input,     \* the argument of the first call
    encoded,   \* the string base58Encode returned
    decoded    \* the pair (bytes, err) base58Decode returned

\* the simultaneous invocations of the codec
VARIABLES
    calls,     \* per invocation: function, argument, position and locals
    buffers    \* the result buffers (var result []byte) of the invocations

\* one run of the command-line program
VARIABLES
    args,         \* the values of the flags after flag.Parse
    home,         \* what os.UserHomeDir returns: the pair (dir, err)
    keypairPath,  \* *keypairPath, which the home expansion rewrites
    messageText,  \* the message to sign
    keypair,      \* the private key loaded; <<>> is nil
    err,          \* the error of the key loading
    signature,    \* the signature; <<>> before the signing
    stdout,       \* what has been written to the standard output
    stderr,       \* what has been written to the standard error
    exitStatus,   \* <<>> while the program runs, then its exit status
    mpc,          \* where main is
    steps         \* the parts of main that have run, in order

\* one run of a release script
VARIABLES
    env,   \* what the script finds: arguments, repository, answers, outcomes
    sh,    \* the shell: where the script is, its variables, its exit status
    repo   \* the repository: its tags, the remote's tags, version and commits

codecVars == <<pc, input, encoded, decoded>>

concVars == <<calls, buffers>>

mainVars ==
    <<args, home, keypairPath, messageText, keypair, err, signature,
      stdout, stderr, exitStatus, mpc, steps>>

scriptVars == <<env, sh, repo>>

vars == <<codecVars, concVars, mainVars, scriptVars>>

NoResult == [bytes |-> <<>>, err |-> nil]

\* no codec call has been made
CodecIdle ==
    /\ pc = "idle"
    /\ input = <<>>
    /\ encoded = <<>>
    /\ decoded = NoResult

\* no simultaneous invocation exists
ConcIdle ==
    /\ calls = <<>>
    /\ buffers = <<>>

NoArgs ==
    [keypair |-> <<>>, privateKey |-> <<>>, message |-> <<>>,
     messageFile |-> <<>>, format |-> "base58", version |-> FALSE,
     verbose |-> FALSE]

\* the program is not run
MainIdle ==
    /\ args = NoArgs
    /\ home = [dir |-> <<>>, err |-> nil]
    /\ keypairPath = <<>>
    /\ messageText = <<>>
    /\ keypair = <<>>
    /\ err = nil
    /\ signature = <<>>
    /\ stdout = <<>>
    /\ stderr = <<>>
    /\ exitStatus = <<>>
    /\ mpc = "idle"
    /\ steps = <<>>

\* the script has not run
NoScript ==
    /\ env = [arg |-> ""]
    /\ sh = [pc |-> "idle"]
    /\ repo = [tags |-> {}, remoteTags |-> {}, version |-> <<>>,
               commits |-> 0, pushed |-> 0]

Init ==
    /\ CodecIdle
    /\ ConcIdle
    /\ MainIdle
    /\ NoScript

\* base58Encode(b) is called
Encode(b) ==
    /\ pc = "idle"
    /\ pc' = "encoded"
    /\ input' = b
    /\ encoded' = base58Encode(b)
    /\ UNCHANGED decoded
    /\ UNCHANGED <<concVars, mainVars, scriptVars>>

\* base58Decode(s) is called
Decode(s) ==
    /\ pc = "idle"
    /\ pc' = "decoded"
    /\ input' = s
    /\ decoded' = base58Decode(s)
    /\ UNCHANGED encoded
    /\ UNCHANGED <<concVars, mainVars, scriptVars>>

\* the string base58Encode returned is handed to base58Decode
DecodeEncoded ==
    /\ pc = "encoded"
    /\ pc' = "encodedDecoded"
    /\ decoded' = base58Decode(encoded)
    /\ UNCHANGED <<input, encoded>>
    /\ UNCHANGED <<concVars, mainVars, scriptVars>>

\* the bytes base58Decode returned are handed to base58Encode
EncodeDecoded ==
    /\ pc = "decoded"
    /\ decoded.err = nil
    /\ pc' = "decodedEncoded"
    /\ encoded' = base58Encode(decoded.bytes)
    /\ UNCHANGED <<input, decoded>>
    /\ UNCHANGED <<concVars, mainVars, scriptVars>>

\* the test file's base58Encode(b) is called
EncodeByTest(b) ==
    /\ pc = "idle"
    /\ pc' = "encodedByTest"
    /\ input' = b
    /\ encoded' = base58EncodeTest(b)
    /\ UNCHANGED decoded
    /\ UNCHANGED <<concVars, mainVars, scriptVars>>

Next ==
    \/ \E b \in ByteInputs : Encode(b)
    \/ \E s \in StrInputs : Decode(s)
    \/ DecodeEncoded
    \/ EncodeDecoded
    \/ \E b \in ByteInputs : EncodeByTest(b)

Spec == Init /\ [][Next]_vars

\* ------------------------------------------------------------------------
\* Simultaneous invocations, one loop iteration at a time
\* ------------------------------------------------------------------------

\* the invocations
Procs == {1, 2}

\* the arguments of the simultaneous invocations
ConcStrInputs == SeqUpTo({49, 122, 48}, MaxConcLen)
ConcByteInputs == SeqUpTo({0, 255}, MaxConcLen)

\* mutant: result is one package-level buffer
ResultShared(p) == 1

\* the buffer that the variable result of invocation p names: var result
\* []byte is declared in the function body, one per invocation
ResultOf(p) == p

\* an invocation at its first statement
NewCall(fn, arg) ==
    [fn |-> fn, arg |-> arg, pc |-> "begin", leading |-> 0, i |-> 0, j |-> 0,
     carry |-> 0, ret |-> <<>>]

InitConc ==
    /\ CodecIdle
    /\ MainIdle
    /\ NoScript
    /\ calls \in [Procs -> {NewCall("decode", s) : s \in ConcStrInputs}
                             \cup {NewCall("encode", b) : b \in ConcByteInputs}]
    /\ buffers = [p \in Procs |-> <<>>]

\* the statements before the conversion loop: the empty argument returns,
\* otherwise the leading '1's (zero bytes) are counted and result is declared
Begin(p) ==
    LET c == calls[p] IN
    /\ c.pc = "begin"
    /\ IF Len(c.arg) = 0
       THEN /\ calls' = [calls EXCEPT ![p].pc = "done",
                                      ![p].ret = IF c.fn = "decode" THEN DecodeEmpty
                                                 ELSE EncodeEmpty]
            /\ UNCHANGED buffers
       ELSE LET n == IF c.fn = "decode" THEN leadingOnes(c.arg)
                     ELSE leadingZeros(c.arg)
            IN  /\ calls' = [calls EXCEPT ![p].pc = "outer",
                                          ![p].leading = n,
                                          ![p].i = n + 1]
                /\ buffers' = [buffers EXCEPT ![ResultOf(p)] = <<>>]
    /\ UNCHANGED <<codecVars, mainVars, scriptVars>>

\* the head of the conversion loop: the next character is looked up (and the
\* call returns the error if it is not in the map), the next byte is read,
\* and carry is set
Outer(p) ==
    LET c == calls[p] IN
    /\ c.pc = "outer"
    /\ IF c.i > Len(c.arg)
       THEN calls' = [calls EXCEPT ![p].pc = "tail"]
       ELSE IF c.fn = "decode" /\ c.arg[c.i] \notin DOMAIN decode
       THEN calls' = [calls EXCEPT ![p].pc = "done",
                                   ![p].ret = [bytes |-> <<>>,
                                               err |-> InvalidCharacter(c.arg[c.i])]]
       ELSE calls' = [calls EXCEPT ![p].pc = "mul",
                                   ![p].j = 1,
                                   ![p].carry = IF c.fn = "decode"
                                                THEN decode[c.arg[c.i]]
                                                ELSE c.arg[c.i]]
    /\ UNCHANGED buffers
    /\ UNCHANGED <<codecVars, mainVars, scriptVars>>

\* mutant: the buffer is shifted by two bytes at a time
FromBaseTwoBytes(fn) == 256 * 256

\* the base the buffer is multiplied by: 58 in base58Decode, 256 in
\* base58Encode
FromBase(fn) == IF fn = "decode" THEN 58 ELSE 256

\* the encoder keeps bytes
ToBaseAlways256(fn) == 256

\* the base of the buffer's digits: 256 in base58Decode, 58 in base58Encode
ToBase(fn) == IF fn = "decode" THEN 256 ELSE 58

\* the test of the loop over result, and the first statement of its body:
\* carry += int(result[j]) * 58 (256 in base58Encode)
MulAdd(p) ==
    LET c   == calls[p]
        buf == buffers[ResultOf(p)]
    IN
    /\ c.pc = "mul"
    /\ IF c.j > Len(buf)
       THEN calls' = [calls EXCEPT ![p].pc = "grow"]
       ELSE calls' = [calls EXCEPT ![p].pc = "store",
                                   ![p].carry = c.carry + buf[c.j] * FromBase(c.fn)]
    /\ UNCHANGED buffers
    /\ UNCHANGED <<codecVars, mainVars, scriptVars>>

\* the rest of the body: result[j] = byte(carry % 256); carry /= 256 (58 in
\* base58Encode); j++
MulStore(p) ==
    LET c == calls[p] IN
    /\ c.pc = "store"
    /\ buffers' = [buffers EXCEPT ![ResultOf(p)][c.j] = c.carry % ToBase(c.fn)]
    /\ calls' = [calls EXCEPT ![p].pc = "mul",
                              ![p].carry = c.carry \div ToBase(c.fn),
                              ![p].j = c.j + 1]
    /\ UNCHANGED <<codecVars, mainVars, scriptVars>>

\* one iteration of: for carry > 0 { result = append(result,
\* byte(carry%256)); carry /= 256 } (58 in base58Encode); the outer loop's
\* i++ when it ends
Grow(p) ==
    LET c   == calls[p]
        buf == buffers[ResultOf(p)]
    IN
    /\ c.pc = "grow"
    /\ IF c.carry > 0
       THEN /\ buffers' = [buffers EXCEPT
                              ![ResultOf(p)] = Append(buf, c.carry % ToBase(c.fn))]
            /\ calls' = [calls EXCEPT ![p].carry = c.carry \div ToBase(c.fn)]
       ELSE /\ calls' = [calls EXCEPT ![p].pc = "outer", ![p].i = c.i + 1]
            /\ UNCHANGED buffers
    /\ UNCHANGED <<codecVars, mainVars, scriptVars>>

\* the statements after the conversion loop: base58Decode appends the zero
\* bytes, reverses result and returns it; base58Encode returns the '1's
\* followed by the characters of the digits, last one first
Return(p) ==
    LET c   == calls[p]
        buf == buffers[ResultOf(p)]
    IN
    /\ c.pc = "tail"
    /\ IF c.fn = "decode"
       THEN LET out == Reverse(AppendZeros(buf, c.leading), 1)
            IN  /\ buffers' = [buffers EXCEPT ![ResultOf(p)] = out]
                /\ calls' = [calls EXCEPT ![p].pc = "done",
                                          ![p].ret = [bytes |-> out, err |-> nil]]
       ELSE /\ calls' = [calls EXCEPT ![p].pc = "done",
                                      ![p].ret = AppendDigits(AppendOnes(<<>>, c.leading),
                                                              buf, Len(buf))]
            /\ UNCHANGED buffers
    /\ UNCHANGED <<codecVars, mainVars, scriptVars>>

NextConc ==
    \E p \in Procs :
        \/ Begin(p)
        \/ Outer(p)
        \/ MulAdd(p)
        \/ MulStore(p)
        \/ Grow(p)
        \/ Return(p)

SpecConc == InitConc /\ [][NextConc]_vars

\* ------------------------------------------------------------------------
\* One invocation, one statement at a time
\* ------------------------------------------------------------------------

MaxStepLen == 3

\* the strings decoded: '1', '5', 'Q', 'z' and the character '0'
StepStrInputs == SeqUpTo({49, 53, 81, 122, 48}, MaxStepLen)

\* the byte sequences encoded
StepByteInputs == SeqUpTo({0, 1, 57, 255}, MaxStepLen)

InitSteps ==
    /\ CodecIdle
    /\ MainIdle
    /\ NoScript
    /\ calls \in [{1} -> {NewCall("decode", s) : s \in StepStrInputs}
                           \cup {NewCall("encode", b) : b \in StepByteInputs}]
    /\ buffers = [p \in {1} |-> <<>>]

NextSteps ==
    \/ Begin(1)
    \/ Outer(1)
    \/ MulAdd(1)
    \/ MulStore(1)
    \/ Grow(1)
    \/ Return(1)

SpecSteps == InitSteps /\ [][NextSteps]_vars

\* ------------------------------------------------------------------------
\* The command-line program: one run of main
\* ------------------------------------------------------------------------

\* the values of -keypair
KeypairInputs ==
    {<<>>, PathFull, PathForeignHalf, PathSeedOnly, PathMalformed,
     PathMissing, PathUnreadable, PathBase64, PathNull, PathBig, PathTilde}

\* the values of -private-key: none, the keys above, a key between white
\* space, a key with the character '0' in it, 32 and 64 characters '1',
\* and white space alone
PrivateKeyInputs ==
    {<<>>, KeySeed, KeyFull, KeyForeignHalf, KeyFiveBytes, Key31, Key33,
     Key65, <<32, 9>> \o KeySeed \o <<13, 10>>,
     SubSeq(KeySeed, 1, 4) \o <<48>> \o SubSeq(KeySeed, 6, Len(KeySeed)),
     [i \in 1..32 |-> CharOne], [i \in 1..64 |-> CharOne], <<32, 32>>}

\* the values of -message: none, "hi", "a\nb" and "\\n" as typed (with the
\* backslashes), and a single space
MessageInputs ==
    {<<>>, <<104, 105>>, <<97, 92, 110, 98>>, <<92, 92, 110>>, <<32>>}

\* the values of -message-file
MessageFileInputs == {<<>>, PathMessage, PathEmptyMessage, PathNoMessage}

\* the values of -format
FormatInputs == {"base58", "base64", "hex", "base32", "BASE58", ""}

\* what os.UserHomeDir can return
HomeInputs ==
    {[dir |-> HomeDir, err |-> nil],
     [dir |-> <<>>, err |-> [kind |-> "$HOME is not defined"]]}

ArgsInputs ==
    [keypair : KeypairInputs, privateKey : PrivateKeyInputs,
     message : MessageInputs, messageFile : MessageFileInputs,
     format : FormatInputs, version : BOOLEAN, verbose : BOOLEAN]

\* main starts: the flags have been parsed
InitMain ==
    /\ args \in ArgsInputs
    /\ home \in HomeInputs
    /\ keypairPath = args.keypair
    /\ messageText = <<>>
    /\ keypair = <<>>
    /\ err = nil
    /\ signature = <<>>
    /\ stdout = <<>>
    /\ stderr = <<>>
    /\ exitStatus = <<>>
    /\ mpc = "validate"
    /\ steps = <<>>
    /\ CodecIdle
    /\ ConcIdle
    /\ NoScript

\* os.Exit(code), and the return of main with code 0
Exit(code) ==
    /\ exitStatus' = <<code>>
    /\ mpc' = "exited"

\* log.Fatalf(...): the message goes to the standard error, then os.Exit(1)
Fatalf(line) ==
    /\ stderr' = Append(stderr, line)
    /\ Exit(1)

\* the usage is printed and the program ends with status 0
UsageErrorExitsZero(msg) ==
    /\ stderr' = Append(stderr, [msg |-> msg])
    /\ stdout' = Append(stdout, [kind |-> "usage"])
    /\ Exit(0)

\* fmt.Fprintf(os.Stderr, "Error: ...\n\n"); printUsage(); os.Exit(1)
UsageError(msg) ==
    /\ stderr' = Append(stderr, [msg |-> msg])
    /\ stdout' = Append(stdout, [kind |-> "usage"])
    /\ Exit(1)

\* mutant: the value of -message is taken whenever -message-file has none
ValidateMessageUnlessFile ==
    /\ mpc = "validate"
    /\ steps' = Append(steps, "Validate")
    /\ IF args.version
       THEN /\ stdout' = Append(stdout, [kind |-> "version"])
            /\ Exit(0)
            /\ UNCHANGED <<stderr, messageText>>
       ELSE IF keypairPath = <<>> /\ args.privateKey = <<>>
       THEN /\ UsageError("Error: Either -keypair or -private-key must be provided")
            /\ UNCHANGED messageText
       ELSE IF keypairPath # <<>> /\ args.privateKey # <<>>
       THEN /\ UsageError("Error: Cannot use both -keypair and -private-key at the same time")
            /\ UNCHANGED messageText
       ELSE IF args.message # <<>> /\ args.messageFile # <<>>
       THEN /\ UsageError("Error: Cannot use both -message and -message-file at the same time")
            /\ UNCHANGED messageText
       ELSE IF args.messageFile = <<>>
       THEN /\ messageText' = processEscapeSequences(args.message)
            /\ mpc' = "expand"
            /\ UNCHANGED <<stdout, stderr, exitStatus>>
       ELSE IF args.messageFile # <<>>
       THEN LET r == ReadFile(args.messageFile)
            IN  IF r.err # nil
                THEN /\ Fatalf([msg |-> "Failed to read message file",
                                err |-> r.err])
                     /\ UNCHANGED <<stdout, messageText>>
                ELSE /\ messageText' = r.data
                     /\ mpc' = "expand"
                     /\ UNCHANGED <<stdout, stderr, exitStatus>>
       ELSE /\ UsageError("Error: Either -message or -message-file must be provided")
            /\ UNCHANGED messageText
    /\ UNCHANGED <<args, home, keypairPath, keypair, err, signature>>
    /\ UNCHANGED <<codecVars, concVars, scriptVars>>

\* the version flag, the required arguments and the message
Validate ==
    /\ mpc = "validate"
    /\ steps' = Append(steps, "Validate")
    /\ IF args.version
       THEN /\ stdout' = Append(stdout, [kind |-> "version"])
            /\ Exit(0)
            /\ UNCHANGED <<stderr, messageText>>
       ELSE IF keypairPath = <<>> /\ args.privateKey = <<>>
       THEN /\ UsageError("Error: Either -keypair or -private-key must be provided")
            /\ UNCHANGED messageText
       ELSE IF keypairPath # <<>> /\ args.privateKey # <<>>
       THEN /\ UsageError("Error: Cannot use both -keypair and -private-key at the same time")
            /\ UNCHANGED messageText
       ELSE IF args.message # <<>> /\ args.messageFile # <<>>
       THEN /\ UsageError("Error: Cannot use both -message and -message-file at the same time")
            /\ UNCHANGED messageText
       ELSE IF args.message # <<>>
       THEN /\ messageText' = processEscapeSequences(args.message)
            /\ mpc' = "expand"
            /\ UNCHANGED <<stdout, stderr, exitStatus>>
       ELSE IF args.messageFile # <<>>
       THEN LET r == ReadFile(args.messageFile)
            IN  IF r.err # nil
                THEN /\ Fatalf([msg |-> "Failed to read message file",
                                err |-> r.err])
                     /\ UNCHANGED <<stdout, messageText>>
                ELSE /\ messageText' = r.data
                     /\ mpc' = "expand"
                     /\ UNCHANGED <<stdout, stderr, exitStatus>>
       ELSE /\ UsageError("Error: Either -message or -message-file must be provided")
            /\ UNCHANGED messageText
    /\ UNCHANGED <<args, home, keypairPath, keypair, err, signature>>
    /\ UNCHANGED <<codecVars, concVars, scriptVars>>

\* the home directory is put in place of a leading '~', and the verbose
\* lines before the loading are written
ExpandHome ==
    /\ mpc = "expand"
    /\ steps' = Append(steps, "ExpandHome")
    /\ keypairPath' =
           IF /\ keypairPath # <<>>
              /\ ~IsAbs(keypairPath)
              /\ keypairPath[1] = Tilde
              /\ home.err = nil
           THEN Join(home.dir, Tail(keypairPath))
           ELSE keypairPath
    /\ stderr' =
           IF args.verbose
           THEN stderr \o
                <<IF keypairPath' # <<>>
                  THEN [msg |-> "Loading keypair from", path |-> keypairPath']
                  ELSE [msg |-> "Using provided private key"],
                  [msg  |-> "Message to sign",
                   text |-> IF Len(messageText) > 100
                            THEN SubSeq(messageText, 1, 100)
                            ELSE messageText],
                  [msg |-> "Output format", format |-> args.format]>>
           ELSE stderr
    /\ mpc' = "load"
    /\ UNCHANGED <<args, home, messageText, keypair, err, signature, stdout,
                   exitStatus>>
    /\ UNCHANGED <<codecVars, concVars, scriptVars>>

\* the error of the loading is not looked at
LoadFailedIgnored(e) == FALSE

\* if err != nil, after the loading
LoadFailed(e) == e # nil

\* the key is loaded from the file or from the string
LoadKeypair ==
    /\ mpc = "load"
    /\ steps' = Append(steps, "LoadKeypair")
    /\ LET r == IF keypairPath # <<>>
                THEN loadKeypairFromFile(keypairPath)
                ELSE loadKeypairFromString(args.privateKey)
       IN  /\ keypair' = r.key
           /\ err' = r.err
           /\ IF LoadFailed(r.err)
              THEN Fatalf([msg |-> "Failed to load keypair", err |-> r.err])
              ELSE /\ mpc' = "sign"
                   /\ stderr' =
                          IF args.verbose
                          THEN stderr \o
                               <<[msg |-> "Keypair loaded successfully"],
                                 [msg    |-> "Public key",
                                  public |-> Public(r.key)]>>
                          ELSE stderr
                   /\ UNCHANGED exitStatus
    /\ UNCHANGED <<args, home, keypairPath, messageText, signature, stdout>>
    /\ UNCHANGED <<codecVars, concVars, scriptVars>>

\* signature := ed25519.Sign(keypair, []byte(messageText))
SignMessage ==
    /\ mpc = "sign"
    /\ steps' = Append(steps, "SignMessage")
    /\ signature' = Sign(keypair, messageText)
    /\ stderr' =
           IF args.verbose
           THEN stderr \o
                <<[msg |-> "Message signed successfully"],
                  [msg |-> "Signature length", length |-> Len(signature')]>>
           ELSE stderr
    /\ mpc' = "output"
    /\ UNCHANGED <<args, home, keypairPath, messageText, keypair, err, stdout,
                   exitStatus>>
    /\ UNCHANGED <<codecVars, concVars, scriptVars>>

\* every value of -format is printed as base58
FormatTextAlwaysBase58(format, sig) == [known |-> TRUE, text |-> base58Encode(sig)]

\* switch *outputFormat: the text printed for the signature, or no known
\* format
FormatText(format, sig) ==
    IF format = "base64"
    THEN [known |-> TRUE, text |-> Base64EncodeToString(sig)]
    ELSE IF format = "hex"
    THEN [known |-> TRUE, text |-> HexEncodeToString(sig)]
    ELSE IF format = "base58"
    THEN [known |-> TRUE, text |-> base58Encode(sig)]
    ELSE [known |-> FALSE, text |-> <<>>]

\* the signature is printed in the format asked for, and main returns
Output ==
    /\ mpc = "output"
    /\ steps' = Append(steps, "Output")
    /\ LET f == FormatText(args.format, signature)
       IN  IF f.known
           THEN /\ stdout' = Append(stdout, [kind |-> "line", text |-> f.text])
                /\ Exit(0)
                /\ UNCHANGED stderr
           ELSE /\ Fatalf([msg |-> "Unknown format", format |-> args.format])
                /\ UNCHANGED stdout
    /\ UNCHANGED <<args, home, keypairPath, messageText, keypair, err,
                   signature>>
    /\ UNCHANGED <<codecVars, concVars, scriptVars>>

NextMain ==
    \/ Validate
    \/ ExpandHome
    \/ LoadKeypair
    \/ SignMessage
    \/ Output

SpecMain == InitMain /\ [][NextMain]_vars

\* ------------------------------------------------------------------------
\* version-bump.sh
\* ------------------------------------------------------------------------

\* '.' is 46, 'v' is 118, '0' is 48
Dot == 46

LetterV == 118

DigitZero == 48

\* the position of the first sep in str, 0 when there is none
FirstAt(str, sep) ==
    IF \E k \in 1..Len(str) : str[k] = sep
    THEN CHOOSE k \in 1..Len(str) :
             str[k] = sep /\ \A h \in 1..(k - 1) : str[h] # sep
    ELSE 0

\* IFS='.' read -ra ADDR <<< "$version": the fields between the separators
RECURSIVE SplitOn(_, _)
SplitOn(str, sep) ==
    IF Len(str) = 0 THEN <<>>
    ELSE IF FirstAt(str, sep) = 0 THEN <<str>>
    ELSE <<SubSeq(str, 1, FirstAt(str, sep) - 1)>>
             \o SplitOn(SubSeq(str, FirstAt(str, sep) + 1, Len(str)), sep)

\* ${ADDR[k]}: the field, empty when there is none
FieldOf(ADDR, k) == IF k < Len(ADDR) THEN ADDR[k + 1] ELSE <<>>

\* the value of a decimal numeral without leading zeros in $(( )); the
\* empty string counts 0
RECURSIVE ParseDecimal(_)
ParseDecimal(ds) ==
    IF Len(ds) = 0 THEN 0
    ELSE ParseDecimal(SubSeq(ds, 1, Len(ds) - 1)) * 10
             + (ds[Len(ds)] - DigitZero)

\* the decimal numeral $(( )) expands to
RECURSIVE FormatDecimal(_)
FormatDecimal(n) ==
    IF n < 10 THEN <<DigitZero + n>>
    ELSE Append(FormatDecimal(n \div 10), DigitZero + (n % 10))

\* $((x + 1)) for the text x
PlusOne(x) == FormatDecimal(ParseDecimal(x) + 1)

\* a minor bump that leaves the patch number as it is
increment_version_keeping_patch(version, type) ==
    LET ADDR  == SplitOn(version, Dot)
        major == FieldOf(ADDR, 0)
        minor == FieldOf(ADDR, 1)
        patch == FieldOf(ADDR, 2)
    IN  IF type = "major"
        THEN PlusOne(major) \o <<Dot, DigitZero, Dot, DigitZero>>
        ELSE IF type = "minor"
        THEN major \o <<Dot>> \o PlusOne(minor) \o <<Dot>> \o patch
        ELSE major \o <<Dot>> \o minor \o <<Dot>> \o PlusOne(patch)

\* increment_version version type: what it echoes
increment_version(version, type) ==
    LET ADDR  == SplitOn(version, Dot)
        major == FieldOf(ADDR, 0)
        minor == FieldOf(ADDR, 1)
        patch == FieldOf(ADDR, 2)
    IN  IF type = "major"
        THEN PlusOne(major) \o <<Dot, DigitZero, Dot, DigitZero>>
        ELSE IF type = "minor"
        THEN major \o <<Dot>> \o PlusOne(minor) \o <<Dot, DigitZero>>
        ELSE major \o <<Dot>> \o minor \o <<Dot>> \o PlusOne(patch)

\* [[ $REPLY =~ ^[Yy]$ ]]
SaysYes(reply) == reply \in {"y", "Y"}

\* the versions of the latest tag: 0.0.0, 1.3.0, 1.2.3, 0.9.9, 9.9.9,
\* 1.9.10, 10.0.99, 2.10.0
VersionInputs ==
    {<<48, 46, 48, 46, 48>>, <<49, 46, 51, 46, 48>>, <<49, 46, 50, 46, 51>>,
     <<48, 46, 57, 46, 57>>, <<57, 46, 57, 46, 57>>,
     <<49, 46, 57, 46, 49, 48>>, <<49, 48, 46, 48, 46, 57, 57>>,
     <<50, 46, 49, 48, 46, 48>>}

\* the first argument of the script; "" when there is none
BumpArgInputs == {"", "patch", "minor", "major", "minro", "--help"}

\* what the script finds when it runs: the repository, the answers typed at
\* its prompts, and which of its commands succeed
BumpEnvInputs ==
    [arg : BumpArgInputs, inRepo : BOOLEAN, clean : BOOLEAN,
     branch : {"main", "master", "dev"}, answerBranch : {"y", "n"},
     answerProceed : {"y", "Y", "n"}, testsPass : BOOLEAN,
     pullWorks : BOOLEAN, pushWorks : BOOLEAN, latest : VersionInputs,
     strayTag : BOOLEAN]

\* "v1.3.1", a tag that may exist beside the history of the branch
StrayTag == <<118, 49, 46, 51, 46, 49>>

\* the tags of the repository when the script starts
TagsAtStart(e) ==
    {<<LetterV>> \o e.latest} \cup (IF e.strayTag THEN {StrayTag} ELSE {})

\* version-bump.sh starts; the tags are in the repository and on the remote
InitBump ==
    /\ env \in BumpEnvInputs
    /\ sh = [pc |-> "start", bump_type |-> "", current_version |-> <<>>,
             new_version |-> <<>>, exit |-> <<>>, steps |-> <<>>]
    /\ repo = [tags |-> TagsAtStart(env), remoteTags |-> TagsAtStart(env),
               version |-> env.latest, commits |-> 0, pushed |-> 0]
    /\ CodecIdle
    /\ ConcIdle
    /\ MainIdle

\* exit code, or the end of the script
ShExit(code, step) ==
    sh' = [sh EXCEPT !.pc = "exited", !.exit = <<code>>,
                     !.steps = Append(sh.steps, step)]

\* the script goes on to the next part
ShGoto(next, step) ==
    sh' = [sh EXCEPT !.pc = next, !.steps = Append(sh.steps, step)]

\* the help flag is looked for, main takes its argument and validates it
BumpArguments ==
    /\ sh.pc = "start"
    /\ IF env.arg \in {"-h", "--help"}
       THEN ShExit(0, "help")
       ELSE LET bump_type == IF env.arg = "" THEN "patch" ELSE env.arg
            IN  IF bump_type \notin {"patch", "minor", "major"}
                THEN ShExit(1, "arguments")
                ELSE sh' = [sh EXCEPT !.pc = "validate_repo_state",
                                      !.bump_type = bump_type,
                                      !.steps = Append(sh.steps, "arguments")]
    /\ UNCHANGED <<env, repo>>
    /\ UNCHANGED <<codecVars, concVars, mainVars>>

\* any branch is taken for the main branch
OnMainBranchAlways(current_branch) == TRUE

\* [ "$current_branch" != "main" ] && [ "$current_branch" != "master" ] is false
OnMainBranch(current_branch) == current_branch \in {"main", "master"}

\* validate_repo_state
ValidateRepoState ==
    /\ sh.pc = "validate_repo_state"
    /\ IF ~env.inRepo THEN ShExit(1, "validate_repo_state")
       ELSE IF ~env.clean THEN ShExit(1, "validate_repo_state")
       ELSE IF ~OnMainBranch(env.branch) /\ ~SaysYes(env.answerBranch)
       THEN ShExit(1, "validate_repo_state")
       ELSE ShGoto("version", "validate_repo_state")
    /\ UNCHANGED <<env, repo>>
    /\ UNCHANGED <<codecVars, concVars, mainVars>>

\* get_current_version and increment_version
CalculateVersion ==
    /\ sh.pc = "version"
    /\ sh' = [sh EXCEPT !.pc = "confirm",
                        !.current_version = env.latest,
                        !.new_version = increment_version(env.latest,
                                                          sh.bump_type),
                        !.steps = Append(sh.steps, "version")]
    /\ UNCHANGED <<env, repo>>
    /\ UNCHANGED <<codecVars, concVars, mainVars>>

\* read -p "Proceed with release ...? (y/N): "
Confirm ==
    /\ sh.pc = "confirm"
    /\ IF ~SaysYes(env.answerProceed) THEN ShExit(0, "confirm")
       ELSE ShGoto("run_tests", "confirm")
    /\ UNCHANGED <<env, repo>>
    /\ UNCHANGED <<codecVars, concVars, mainVars>>

\* run_tests
RunTests ==
    /\ sh.pc = "run_tests"
    /\ IF ~env.testsPass THEN ShExit(1, "run_tests")
       ELSE ShGoto("pull", "run_tests")
    /\ UNCHANGED <<env, repo>>
    /\ UNCHANGED <<codecVars, concVars, mainVars>>

\* git pull origin <branch>; under set -e its failure ends the script
Pull ==
    /\ sh.pc = "pull"
    /\ IF ~env.pullWorks THEN ShExit(1, "pull")
       ELSE ShGoto("tag", "pull")
    /\ UNCHANGED <<env, repo>>
    /\ UNCHANGED <<codecVars, concVars, mainVars>>

\* create_release: git tag -a "$tag"; it fails when the tag exists
CreateTag ==
    /\ sh.pc = "tag"
    /\ LET tag == <<LetterV>> \o sh.new_version
       IN  IF tag \in repo.tags
           THEN ShExit(1, "tag") /\ UNCHANGED repo
           ELSE /\ repo' = [repo EXCEPT !.tags = repo.tags \cup {tag}]
                /\ ShGoto("push", "tag")
    /\ UNCHANGED env
    /\ UNCHANGED <<codecVars, concVars, mainVars>>

\* create_release: git push origin "$tag", and the end of main
PushTag ==
    /\ sh.pc = "push"
    /\ LET tag == <<LetterV>> \o sh.new_version
       IN  IF ~env.pushWorks
           THEN ShExit(1, "push") /\ UNCHANGED repo
           ELSE /\ repo' = [repo EXCEPT !.remoteTags = repo.remoteTags \cup {tag}]
                /\ ShExit(0, "push")
    /\ UNCHANGED env
    /\ UNCHANGED <<codecVars, concVars, mainVars>>

NextBump ==
    \/ BumpArguments
    \/ ValidateRepoState
    \/ CalculateVersion
    \/ Confirm
    \/ RunTests
    \/ Pull
    \/ CreateTag
    \/ PushTag

SpecBump == InitBump /\ [][NextBump]_vars

\* ------------------------------------------------------------------------
\* release.sh
\* ------------------------------------------------------------------------

\* the first argument of release.sh: none, 1.3.0, 1.3.1, 1.4.0, 2.0.0
ReleaseArgInputs ==
    {<<>>, <<49, 46, 51, 46, 48>>, <<49, 46, 51, 46, 49>>,
     <<49, 46, 52, 46, 48>>, <<50, 46, 48, 46, 48>>}

\* what release.sh finds when it runs
ReleaseEnvInputs ==
    [arg : ReleaseArgInputs, branch : {"main", "master", "dev"},
     answerBranch : {"y", "n"}, clean : BOOLEAN, testsPass : BOOLEAN,
     buildWorks : BOOLEAN, pushWorks : BOOLEAN, latest : VersionInputs,
     strayTag : BOOLEAN]

\* release.sh starts; repo.version is the version written in the source
\* files, repo.commits and repo.pushed count the commits made and pushed
InitRelease ==
    /\ env \in ReleaseEnvInputs
    /\ sh = [pc |-> "parse", VERSION |-> <<>>, TAG |-> <<>>, exit |-> <<>>,
             steps |-> <<>>]
    /\ repo = [tags |-> TagsAtStart(env), remoteTags |-> TagsAtStart(env),
               version |-> env.latest, commits |-> 0, pushed |-> 0]
    /\ CodecIdle
    /\ ConcIdle
    /\ MainIdle

\* if [ -z "$1" ]: the version argument is required
ParseVersion ==
    /\ sh.pc = "parse"
    /\ IF Len(env.arg) = 0 THEN ShExit(1, "parse")
       ELSE sh' = [sh EXCEPT !.pc = "branch",
                             !.VERSION = env.arg,
                             !.TAG = <<LetterV>> \o env.arg,
                             !.steps = Append(sh.steps, "parse")]
    /\ UNCHANGED <<env, repo>>
    /\ UNCHANGED <<codecVars, concVars, mainVars>>

\* the branch is compared with main; on another branch the user is asked
VerifyBranch ==
    /\ sh.pc = "branch"
    /\ IF env.branch # "main" /\ ~SaysYes(env.answerBranch)
       THEN ShExit(0, "branch")
       ELSE ShGoto("changes", "branch")
    /\ UNCHANGED <<env, repo>>
    /\ UNCHANGED <<codecVars, concVars, mainVars>>

\* uncommitted changes end the script
CheckChanges ==
    /\ sh.pc = "changes"
    /\ IF ~env.clean THEN ShExit(1, "changes")
       ELSE ShGoto("update", "changes")
    /\ UNCHANGED <<env, repo>>
    /\ UNCHANGED <<codecVars, concVars, mainVars>>

\* sed writes the version into the source files
UpdateVersion ==
    /\ sh.pc = "update"
    /\ repo' = [repo EXCEPT !.version = sh.VERSION]
    /\ ShGoto("test", "update")
    /\ UNCHANGED env
    /\ UNCHANGED <<codecVars, concVars, mainVars>>

\* go test ./... ; under set -e its failure ends the script
ReleaseTests ==
    /\ sh.pc = "test"
    /\ IF ~env.testsPass THEN ShExit(1, "test")
       ELSE ShGoto("build", "test")
    /\ UNCHANGED <<env, repo>>
    /\ UNCHANGED <<codecVars, concVars, mainVars>>

\* ./build-release.sh, then rm -rf dist/
Build ==
    /\ sh.pc = "build"
    /\ IF ~env.buildWorks THEN ShExit(1, "build")
       ELSE ShGoto("commit", "build")
    /\ UNCHANGED <<env, repo>>
    /\ UNCHANGED <<codecVars, concVars, mainVars>>

\* git add, git commit: with nothing changed git commit fails
Commit ==
    /\ sh.pc = "commit"
    /\ IF repo.version = env.latest
       THEN ShExit(1, "commit") /\ UNCHANGED repo
       ELSE /\ repo' = [repo EXCEPT !.commits = repo.commits + 1]
            /\ ShGoto("tag", "commit")
    /\ UNCHANGED env
    /\ UNCHANGED <<codecVars, concVars, mainVars>>

\* git tag -a "$TAG"; it fails when the tag exists
ReleaseTag ==
    /\ sh.pc = "tag"
    /\ IF sh.TAG \in repo.tags
       THEN ShExit(1, "tag") /\ UNCHANGED repo
       ELSE /\ repo' = [repo EXCEPT !.tags = repo.tags \cup {sh.TAG}]
            /\ ShGoto("push", "tag")
    /\ UNCHANGED env
    /\ UNCHANGED <<codecVars, concVars, mainVars>>

\* git push origin main; git push origin "$TAG"; and the end of the script
ReleasePush ==
    /\ sh.pc = "push"
    /\ IF ~env.pushWorks
       THEN ShExit(1, "push") /\ UNCHANGED repo
       ELSE /\ repo' = [repo EXCEPT !.pushed = repo.commits,
                                    !.remoteTags = repo.remoteTags \cup {sh.TAG}]
            /\ ShExit(0, "push")
    /\ UNCHANGED env
    /\ UNCHANGED <<codecVars, concVars, mainVars>>

NextRelease ==
    \/ ParseVersion
    \/ VerifyBranch
    \/ CheckChanges
    \/ UpdateVersion
    \/ ReleaseTests
    \/ Build
    \/ Commit
    \/ ReleaseTag
    \/ ReleasePush

SpecRelease == InitRelease /\ [][NextRelease]_vars

\* ------------------------------------------------------------------------
\* Properties
\* ------------------------------------------------------------------------

\* the 58 symbols of the alphabet
AlphabetChars == {alphabet[i] : i \in 1..Len(alphabet)}

\* every character of s is a symbol of the alphabet
AlphabetOnly(s) == \A i \in 1..Len(s) : s[i] \in AlphabetChars

\* the alphabet index (0..57) of the symbol c
IndexOf(c) == CHOOSE v \in 0..(Len(alphabet) - 1) : alphabet[v + 1] = c

\* the position of the leftmost character of s that is not in the alphabet
FirstInvalid(s) ==
    CHOOSE i \in 1..Len(s) :
        /\ s[i] \notin AlphabetChars
        /\ \A j \in 1..(i - 1) : s[j] \in AlphabetChars

\* the number of leading elements of q equal to x
LeadingCount(q, x) ==
    CHOOSE k \in 0..Len(q) :
        /\ \A i \in 1..k : q[i] = x
        /\ k < Len(q) => q[k + 1] # x

\* k copies of x
Repeat(x, k) == [i \in 1..k |-> x]

\* q without its first k elements
Drop(q, k) == SubSeq(q, k + 1, Len(q))

\* C1: decoding the encoding of a byte sequence succeeds and gives back
\* exactly that byte sequence (same length, same leading zero bytes)
C1_DecodeOfEncode ==
    pc = "encodedDecoded" => decoded = [bytes |-> input, err |-> nil]

C1_Witness ==
    /\ pc = "encodedDecoded"
    /\ input = <<0, 0, 255, 1>>
    /\ Len(encoded) = 5
    /\ decoded.bytes = <<0, 0, 255, 1>>

\* C2: for a string of alphabet characters only, decoding succeeds and
\* encoding the decoded bytes gives back exactly that string
C2_EncodeOfDecode ==
    /\ (pc = "decoded" /\ AlphabetOnly(input)) => decoded.err = nil
    /\ (pc = "decodedEncoded" /\ AlphabetOnly(input)) => encoded = input

C2_Witness ==
    /\ pc = "decodedEncoded"
    /\ input = <<49, 50, 49, 122>>
    /\ decoded.bytes = <<0, 13, 93>>
    /\ encoded = <<49, 50, 49, 122>>

\* C3: base58Decode returns an error exactly when its argument has a
\* character outside the alphabet, and the error is the invalid-character one
C3_ErrorIffInvalidCharacter ==
    pc = "decoded" =>
        /\ decoded.err # nil <=> ~AlphabetOnly(input)
        /\ decoded.err # nil => decoded.err.kind = "invalid character"

C3_Witness ==
    /\ pc = "decoded"
    /\ input = <<49, 49, 50, 108>>
    /\ decoded.err.kind = "invalid character"

\* C4: the error of base58Decode names the leftmost character of the
\* argument that is not in the alphabet
C4_ErrorNamesLeftmostInvalid ==
    (pc = "decoded" /\ decoded.err # nil) =>
        /\ ~AlphabetOnly(input)
        /\ decoded.err = InvalidCharacter(input[FirstInvalid(input)])

C4_Witness ==
    /\ pc = "decoded"
    /\ input = <<49, 50, 108, 48>>
    /\ decoded.err = InvalidCharacter(108)

\* C5: base58Encode returns, for every byte sequence, a string of alphabet
\* characters only (it never fails: no index falls outside the alphabet)
C5_EncodeTotal ==
    pc \in {"encoded", "encodedDecoded", "decodedEncoded"} => AlphabetOnly(encoded)

C5_Witness ==
    /\ pc = "encoded"
    /\ input = <<255, 255, 255, 255>>
    /\ encoded = <<55, 89, 88, 113, 57, 71>>

\* C6: the empty byte sequence is encoded as the empty string, and the empty
\* string is decoded, without error, as the empty byte sequence
C6_EmptyToEmpty ==
    /\ (pc \in {"encoded", "encodedDecoded"} /\ input = <<>>) => encoded = <<>>
    /\ (pc = "decoded" /\ input = <<>>) => decoded = [bytes |-> <<>>, err |-> nil]
    /\ (pc = "encodedDecoded" /\ encoded = <<>>) =>
           decoded = [bytes |-> <<>>, err |-> nil]

C6_Witness ==
    /\ pc = "encodedDecoded"
    /\ input = <<>>
    /\ encoded = <<>>
    /\ decoded.bytes = <<>>
    /\ decoded.err = nil

C8_LeadingOnesPreserved ==
    (/\ pc = "decoded"
     /\ Len(input) >= 2
     /\ input[1] = CharOne
     /\ input[2] = CharOne
     /\ AlphabetOnly(input)) =>
        LET X == base58Decode(Drop(input, 2))
        IN  /\ X.err = nil
            /\ decoded = [bytes |-> <<0, 0>> \o X.bytes, err |-> nil]

C8_Witness ==
    /\ pc = "decoded"
    /\ input = <<49, 49, 50, 122>>
    /\ decoded.bytes = <<0, 0, 115>>

\* C9: a one-character string of the alphabet decodes to the one byte that
\* is the character's alphabet index, a one-byte sequence of value 0..57
\* encodes to the one character at that index, and "11" decodes to [0, 0]
C9_SingleDigits ==
    /\ (pc = "decoded" /\ Len(input) = 1 /\ input[1] \in AlphabetChars) =>
           decoded = [bytes |-> <<IndexOf(input[1])>>, err |-> nil]
    /\ (pc \in {"encoded", "encodedDecoded"} /\ Len(input) = 1
           /\ input[1] < Len(alphabet)) =>
           encoded = <<alphabet[input[1] + 1]>>
    /\ (pc = "encodedDecoded" /\ Len(encoded) = 1 /\ encoded[1] \in AlphabetChars) =>
           decoded = [bytes |-> <<IndexOf(encoded[1])>>, err |-> nil]
    /\ (pc = "decoded" /\ input = <<49, 49>>) =>
           decoded = [bytes |-> <<0, 0>>, err |-> nil]

C9_Witness ==
    /\ pc = "encodedDecoded"
    /\ input = <<57>>
    /\ encoded = <<122>>
    /\ decoded.bytes = <<57>>

\* C10: '0', 'O', 'I' and 'l' are not in the alphabet, and base58Decode
\* fails with the invalid-character error on every string that has one
C10_AmbiguousRejected ==
    /\ {48, 79, 73, 108} \cap AlphabetChars = {}
    /\ (pc = "decoded" /\ \E i \in 1..Len(input) : input[i] \in {48, 79, 73, 108}) =>
           /\ decoded.err # nil
           /\ decoded.err.kind = "invalid character"

C10_Witness ==
    /\ pc = "decoded"
    /\ input = <<48, 79, 73, 108>>
    /\ decoded.err = InvalidCharacter(48)

\* the integer that the digits ds denote in the given base, most significant
\* digit first
RECURSIVE ValueOf(_, _)
ValueOf(ds, base) ==
    IF Len(ds) = 0 THEN 0
    ELSE ValueOf(SubSeq(ds, 1, Len(ds) - 1), base) * base + ds[Len(ds)]

\* the shortest digit sequence denoting n in the given base, most significant
\* digit first (no digit for 0)
RECURSIVE DigitsOf(_, _)
DigitsOf(n, base) ==
    IF n = 0 THEN <<>> ELSE Append(DigitsOf(n \div base, base), n % base)

\* the residue modulo p of the integer that the digits ds denote
RECURSIVE ResidueOf(_, _, _)
ResidueOf(ds, base, p) ==
    IF Len(ds) = 0 THEN 0
    ELSE (ResidueOf(SubSeq(ds, 1, Len(ds) - 1), base, p) * base + ds[Len(ds)]) % p

\* pairwise coprime moduli whose product, above 10^18, exceeds every integer
\* the modelled inputs denote: two such integers are equal exactly when their
\* residues agree
Moduli == {1009, 1013, 1019, 1021, 1031, 1033}

\* the digit sequences ds (base a) and es (base b) denote the same integer
SameInteger(ds, a, es, b) ==
    \A p \in Moduli : ResidueOf(ds, a, p) = ResidueOf(es, b, p)

\* C11: an alphabet-only string with k leading '1's decodes to k zero bytes
\* followed by the shortest big-endian base-256 form of the integer its
\* remaining characters denote in base 58
C11_DecodeNumeric ==
    (pc = "decoded" /\ AlphabetOnly(input)) =>
        LET k  == LeadingCount(input, CharOne)
            ds == [i \in 1..(Len(input) - k) |-> IndexOf(input[k + i])]
        IN  decoded = [bytes |-> Repeat(0, k) \o DigitsOf(ValueOf(ds, 58), 256),
                       err |-> nil]

C11_Witness ==
    /\ pc = "decoded"
    /\ input = <<49, 122, 49, 50>>
    /\ decoded.bytes = <<0, 2, 237, 5>>

C13_AlphabetBijection ==
    /\ encodeAlphabet = alphabet
    /\ Len(alphabet) = 58
    /\ Cardinality(AlphabetChars) = 58
    /\ DOMAIN decode = AlphabetChars
    /\ \A v \in 0..57 : AlphabetAt(v) \in DOMAIN decode /\ decode[AlphabetAt(v)] = v
    /\ (pc = "encoded" /\ Len(input) = 1 /\ input[1] \in 1..57) =>
           /\ Len(encoded) = 1
           /\ encoded[1] \in DOMAIN decode
           /\ decode[encoded[1]] = input[1]

C13_Witness ==
    /\ pc = "encoded"
    /\ input = <<33>>
    /\ encoded = <<97>>
    /\ decode[97] = 33

\* C14: whatever the interleaving of the steps of the simultaneous
\* invocations, an invocation that has returned has returned what the same
\* call returns when it runs alone
C14_ConcurrentSameAsAlone ==
    \A p \in DOMAIN calls :
        calls[p].pc = "done" =>
            calls[p].ret = IF calls[p].fn = "decode" THEN base58Decode(calls[p].arg)
                           ELSE base58Encode(calls[p].arg)

C14_Witness ==
    /\ DOMAIN calls = Procs
    /\ calls[1].fn = "decode" /\ calls[1].arg = <<49, 122>> /\ calls[1].pc = "done"
    /\ calls[2].fn = "encode" /\ calls[2].arg = <<255, 255>> /\ calls[2].pc = "done"
    /\ calls[1].ret = [bytes |-> <<0, 57>>, err |-> nil]
    /\ calls[2].ret = <<76, 85, 118>>

\* ------------------------------------------------------------------------
\* Properties of the command-line program
\* ------------------------------------------------------------------------

\* the part of main that ran last
JustRan(step) == steps # <<>> /\ steps[Len(steps)] = step

\* a part of main has run
HasRun(step) == \E k \in 1..Len(steps) : steps[k] = step

\* a signature line has been written to the standard output
SignaturePrinted == \E k \in 1..Len(stdout) : stdout[k].kind = "line"

\* C15: loadKeypairFromString returns a private key if and only if its
\* argument, with the surrounding white space cut, is made of characters of
\* the alphabet and decodes to exactly 32 or exactly 64 bytes; for a string
\* of the alphabet that decodes to another length it returns the error
\* "invalid private key length" and no key.
C15_StringKeyIffLength ==
    (JustRan("LoadKeypair") /\ keypairPath = <<>>) =>
        LET str == TrimSpace(args.privateKey)
            d   == base58Decode(str)
            ok  == AlphabetOnly(str) /\ Len(d.bytes) \in {32, 64}
        IN  /\ (keypair # <<>>) <=> ok
            /\ (err = nil) <=> ok
            /\ ok => Len(keypair) = 64
            /\ (AlphabetOnly(str) /\ ~ok) =>
                   /\ err = [kind |-> "invalid private key length",
                             got  |-> Len(d.bytes)]
                   /\ keypair = <<>>

C15_Witness ==
    /\ JustRan("LoadKeypair")
    /\ args.privateKey = KeyFiveBytes
    /\ err = [kind |-> "invalid private key length", got |-> 5]
    /\ keypair = <<>>

\* C16: the key loadKeypairFromString makes of a 64-byte value depends on
\* the first 32 bytes alone: it is the key of those 32 bytes given alone,
\* and the key of those 32 bytes followed by any other 32; the second half
\* is not compared with the public key of the seed.
C16_SeedOnly ==
    (JustRan("LoadKeypair") /\ keypairPath = <<>>) =>
        LET d == base58Decode(TrimSpace(args.privateKey))
            first == SubSeq(d.bytes, 1, 32)
        IN  (d.err = nil /\ Len(d.bytes) = 64) =>
                /\ err = nil
                /\ keypair = NewKeyFromSeed(first)
                /\ keypair = loadKeypairFromString(base58Encode(first)).key
                /\ \A half \in {ForeignHalf, PublicKeyOf(first)} :
                       loadKeypairFromString(base58Encode(first \o half)).key
                           = keypair

C16_Witness ==
    /\ JustRan("LoadKeypair")
    /\ args.privateKey = KeyForeignHalf
    /\ err = nil
    /\ keypair = NewKeyFromSeed(Seed)
    /\ SubSeq(keypair, 33, 64) # ForeignHalf

\* C17: loadKeypairFromFile returns a private key, the key of the first 32
\* bytes, if and only if the file exists, can be read, holds JSON that
\* parses into bytes, and the bytes are exactly 64; otherwise it returns an
\* error and no key.
C17_FileKeyIff ==
    (JustRan("LoadKeypair") /\ keypairPath # <<>>) =>
        LET f  == FileAt(keypairPath)
            u  == Unmarshal(f.data)
            ok == /\ f.exists
                  /\ f.readable
                  /\ u.err = nil
                  /\ Len(u.bytes) = 64
        IN  /\ (keypair # <<>>) <=> ok
            /\ (err = nil) <=> ok
            /\ ok => keypair = NewKeyFromSeed(SubSeq(u.bytes, 1, 32))

C17_Witness ==
    /\ JustRan("LoadKeypair")
    /\ keypairPath = PathSeedOnly
    /\ err = [kind |-> "invalid keypair length", got |-> 32]
    /\ keypair = <<>>

\* the value of a hexadecimal digit, -1 for another character
HexValue(c) ==
    IF c \in 48..57 THEN c - 48
    ELSE IF c \in 97..102 THEN c - 87
    ELSE -1

\* the bytes a string of hexadecimal digits stands for, <<-1>> when it is
\* not such a string
HexBytes(str) ==
    IF Len(str) % 2 = 1 \/ \E k \in 1..Len(str) : HexValue(str[k]) = -1
    THEN <<-1>>
    ELSE [k \in 1..(Len(str) \div 2) |->
             16 * HexValue(str[2 * k - 1]) + HexValue(str[2 * k])]

\* the bytes the text stands for in the format
BytesOfText(format, text) ==
    IF format = "hex" THEN HexBytes(text)
    ELSE IF format = "base64"
    THEN (IF Base64DecodeString(text).err = nil
          THEN Base64DecodeString(text).bytes ELSE <<-1>>)
    ELSE (IF AlphabetOnly(text) THEN base58Decode(text).bytes ELSE <<-1>>)

C19_DecodeErrorStops ==
    /\ (HasRun("LoadKeypair") /\ keypairPath = <<>>
           /\ ~AlphabetOnly(TrimSpace(args.privateKey))) =>
           /\ base58Decode(TrimSpace(args.privateKey)).err =
                  InvalidCharacter(TrimSpace(args.privateKey)[
                      FirstInvalid(TrimSpace(args.privateKey))])
           /\ err = [kind  |-> "failed to decode private key as base58",
                     wraps |-> base58Decode(TrimSpace(args.privateKey)).err]
           /\ keypair = <<>>
           /\ mpc = "exited"
           /\ Len(exitStatus) = 1
           /\ exitStatus[1] # 0
           /\ JustRan("LoadKeypair")
           /\ signature = <<>>
           /\ ~SignaturePrinted
    /\ SignaturePrinted =>
           /\ steps = <<"Validate", "ExpandHome", "LoadKeypair", "SignMessage",
                        "Output">>
           /\ err = nil
           /\ Len(keypair) = 64

C19_Witness ==
    /\ HasRun("LoadKeypair")
    /\ keypairPath = <<>>
    /\ ~AlphabetOnly(TrimSpace(args.privateKey))
    /\ err.kind = "failed to decode private key as base58"
    /\ err.wraps = InvalidCharacter(48)
    /\ exitStatus = <<1>>
    /\ signature = <<>>

\* neither or both options of a pair have a value
NotExactlyOne(a, b) == (a = <<>>) <=> (b = <<>>)

\* the options as the claim speaks of them: not exactly one key option, or
\* not exactly one message option
BadOptions ==
    \/ NotExactlyOne(args.keypair, args.privateKey)
    \/ NotExactlyOne(args.message, args.messageFile)

\* main has ended with status 1, having loaded no key and printed no
\* signature
EndedInValidation ==
    /\ exitStatus = <<1>>
    /\ steps = <<"Validate">>
    /\ keypair = <<>>
    /\ signature = <<>>
    /\ ~SignaturePrinted

\* C20, as stated: when not exactly one option of a pair is given, main
\* exits with status 1 before loading any key and without printing a
\* signature.
C20_AsStated ==
    (HasRun("Validate") /\ BadOptions) => EndedInValidation

\* C20: when -version is not given and not exactly one option of a pair is
\* given, main exits with status 1 before loading any key and without
\* printing a signature.
C20_ExactlyOneOfEachPair ==
    (HasRun("Validate") /\ ~args.version /\ BadOptions) => EndedInValidation

C20_Witness ==
    /\ HasRun("Validate")
    /\ ~args.version
    /\ args.keypair = PathFull
    /\ args.privateKey = <<>>
    /\ args.message # <<>>
    /\ args.messageFile # <<>>
    /\ EndedInValidation
    /\ stdout = <<[kind |-> "usage"]>>

\* ------------------------------------------------------------------------
\* Properties of the release scripts
\* ------------------------------------------------------------------------

\* the numbers a version text "a.b.c" is made of, <<>> when the text is not
\* three decimal numerals without leading zeros separated by two dots
NumbersOf(str) ==
    LET dots == {k \in 1..Len(str) : str[k] = 46}
        d1   == CHOOSE k \in dots : \A h \in dots : k <= h
        d2   == CHOOSE k \in dots : \A h \in dots : k >= h
        num(lo, hi) == ValueOf([k \in 1..(hi - lo + 1) |-> str[lo + k - 1] - 48], 10)
        numeral(lo, hi) ==
            /\ lo <= hi
            /\ \A k \in lo..hi : str[k] \in 48..57
            /\ (hi > lo => str[lo] # 48)
    IN  IF /\ Cardinality(dots) = 2
           /\ numeral(1, d1 - 1)
           /\ numeral(d1 + 1, d2 - 1)
           /\ numeral(d2 + 1, Len(str))
        THEN <<num(1, d1 - 1), num(d1 + 1, d2 - 1), num(d2 + 1, Len(str))>>
        ELSE <<>>

\* a part of the script has run
ShHasRun(step) == \E k \in 1..Len(sh.steps) : sh.steps[k] = step

\* C21: increment_version maps major.minor.patch to major.minor.(patch+1)
\* for a patch bump, to major.(minor+1).0 for a minor bump and to
\* (major+1).0.0 for a major bump; 1.3.0 becomes 1.3.1, 1.4.0 and 2.0.0.
C21_IncrementVersion ==
    ShHasRun("version") =>
        LET old == NumbersOf(sh.current_version)
            new == NumbersOf(sh.new_version)
        IN  /\ Len(old) = 3
            /\ Len(new) = 3
            /\ sh.bump_type = "patch" =>
                   new = <<old[1], old[2], old[3] + 1>>
            /\ sh.bump_type = "minor" => new = <<old[1], old[2] + 1, 0>>
            /\ sh.bump_type = "major" => new = <<old[1] + 1, 0, 0>>
            /\ sh.current_version = <<49, 46, 51, 46, 48>> =>
                   sh.new_version =
                       IF sh.bump_type = "patch" THEN <<49, 46, 51, 46, 49>>
                       ELSE IF sh.bump_type = "minor" THEN <<49, 46, 52, 46, 48>>
                       ELSE <<50, 46, 48, 46, 48>>

C21_Witness ==
    /\ ShHasRun("version")
    /\ sh.bump_type = "minor"
    /\ sh.current_version = <<49, 46, 57, 46, 49, 48>>
    /\ sh.new_version = <<49, 46, 49, 48, 46, 48>>

\* the tag of the new version is in the repository or on the remote
NewTagExists ==
    \E tag \in (repo.tags \cup repo.remoteTags) : tag \notin TagsAtStart(env)

BranchAccepted ==
    env.branch \in {"main", "master"} \/ env.answerBranch \in {"y", "Y"}

C23_NoArgumentPatchBump ==
    (sh.pc = "exited" /\ ShHasRun("parse") /\ Len(env.arg) = 0
        /\ env.branch = "main" /\ env.clean /\ env.testsPass
        /\ env.buildWorks /\ env.pushWorks /\ ~env.strayTag) =>
        /\ sh.exit = <<0>>
        /\ (<<LetterV>> \o increment_version(env.latest, "patch"))
               \in repo.remoteTags

\* ------------------------------------------------------------------------
\* Properties of the statements of the codec
\* ------------------------------------------------------------------------

\* C24: at every statement of base58Decode and base58Encode the variable
\* carry is within 0..14847, which is 57 + 255 * 58 in the decoder and
\* 255 + 57 * 256 in the encoder, so it fits 15 bits.
C24_CarryBounded ==
    \A p \in DOMAIN calls :
        /\ calls[p].carry >= 0
        /\ calls[p].fn = "decode" => calls[p].carry <= 57 + 255 * 58
        /\ calls[p].fn = "encode" => calls[p].carry <= 255 + 57 * 256
        /\ calls[p].carry % (2 ^ 15) = calls[p].carry
        \* what makes the bound hold at any length: before each
        \* multiplication carry is at most a digit of the source base and
        \* every slot is a digit of the target base
        /\ (calls[p].fn = "decode" /\ calls[p].pc \in {"mul", "grow"}) =>
               /\ calls[p].carry <= 57
               /\ \A k \in 1..Len(buffers[p]) : buffers[p][k] \in 0..255
        /\ (calls[p].fn = "encode" /\ calls[p].pc \in {"mul", "grow"}) =>
               /\ calls[p].carry <= 255
               /\ \A k \in 1..Len(buffers[p]) : buffers[p][k] \in 0..57

C24_Witness ==
    /\ DOMAIN calls = {1}
    /\ calls[1].fn = "decode"
    /\ calls[1].arg = <<53, 81, 122>>
    /\ calls[1].pc = "store"
    /\ calls[1].carry = 14847

\* C25: in base58Encode every slot of the digit buffer holds a value in
\* 0..57 after every statement; when an input byte has been folded in, carry
\* is 0 and the last slot, the most significant, is not 0; and the string
\* returned is made of characters of the alphabet, one for each slot after
\* the '1's.
C25_DigitBuffer ==
    \A p \in DOMAIN calls :
        calls[p].fn = "encode" =>
            LET c   == calls[p]
                buf == buffers[p]
            IN  /\ c.pc \in {"outer", "mul", "grow", "tail"} =>
                       \A k \in 1..Len(buf) : buf[k] \in 0..57
                /\ c.pc = "store" =>
                       \A k \in 1..Len(buf) : k # c.j => buf[k] \in 0..57
                /\ (c.pc \in {"outer", "tail"} /\ c.i > c.leading + 1) =>
                       /\ c.carry = 0
                       /\ Len(buf) > 0
                       /\ buf[Len(buf)] # 0
                /\ (c.pc = "done" /\ Len(c.arg) > 0) =>
                       /\ Len(c.ret) = c.leading + Len(buf)
                       /\ \A k \in 1..Len(c.ret) : c.ret[k] \in AlphabetChars

C25_Witness ==
    /\ DOMAIN calls = {1}
    /\ calls[1].fn = "encode"
    /\ calls[1].arg = <<0, 57, 255>>
    /\ calls[1].pc = "outer"
    /\ calls[1].i = 4
    /\ calls[1].carry = 0
    /\ buffers[1] = <<57, 23, 4>>

\* C26: for a string of alphabet characters only, base58Decode returns as
\* many leading zero bytes as the string has leading '1's, the byte after
\* them (if any) is not zero, and a '1' after another character multiplies
\* the number decoded so far by 58 and adds nothing, without a byte of its
\* own.
C26_LeadingZeroCount ==
    (pc = "decoded" /\ AlphabetOnly(input)) =>
        LET k == LeadingCount(input, CharOne)
            b == decoded.bytes
        IN  /\ decoded.err = nil
            /\ LeadingCount(b, 0) = k
            /\ Len(input) = k => b = Repeat(0, k)
            /\ Len(input) > k => (Len(b) > k /\ b[k + 1] # 0)
            /\ \A i \in (k + 2)..Len(input) :
                   input[i] = CharOne =>
                       LET before == base58Decode(SubSeq(input, 1, i - 1)).bytes
                           upto   == base58Decode(SubSeq(input, 1, i)).bytes
                       IN  /\ ValueOf(upto, 256) = 58 * ValueOf(before, 256)
                           /\ LeadingCount(upto, 0) = k
                           /\ Len(upto) = k + Len(DigitsOf(ValueOf(upto, 256), 256))

C26_Witness ==
    /\ pc = "decoded"
    /\ input = <<49, 50, 49, 49>>
    /\ decoded.bytes = <<0, 13, 36>>

\* C27: when base58Decode returns an error it returns no bytes with it, not
\* the bytes built from the characters before the offending one.
C27_NoBytesOnError ==
    (pc = "decoded" /\ decoded.err # nil) =>
        /\ decoded.bytes = <<>>
        /\ Len(decoded.bytes) = 0

C27_Witness ==
    /\ pc = "decoded"
    /\ input = <<50, 122, 48>>
    /\ base58Decode(<<50, 122>>).bytes = <<115>>
    /\ decoded.err = InvalidCharacter(48)
    /\ decoded.bytes = <<>>

\* C28: for every byte sequence the base58Encode of the test file returns
\* the string that the base58Encode of the program returns.
C28_TestEncoderSame ==
    pc = "encodedByTest" => encoded = base58Encode(input)

C28_Witness ==
    /\ pc = "encodedByTest"
    /\ input = <<0, 0, 255, 1>>
    /\ encoded = base58Encode(<<0, 0, 255, 1>>)
    /\ Len(encoded) = 5

\* ------------------------------------------------------------------------
\* Properties of the message options
\* ------------------------------------------------------------------------

\* the characters that follow a backslash in an escape pair, and what the
\* pair stands for: n, t, r, backslash, double quote, single quote
EscapeOf ==
    (110 :> 10) @@ (116 :> 9) @@ (114 :> 13) @@ (92 :> 92) @@ (34 :> 34) @@ (39 :> 39)

\* one pass over str from left to right: an escape pair gives its character
\* and the pass goes on after the pair; any other character is kept
RECURSIVE Unescape(_)
Unescape(str) ==
    IF Len(str) = 0 THEN <<>>
    ELSE IF Len(str) >= 2 /\ str[1] = 92 /\ str[2] \in DOMAIN EscapeOf
    THEN <<EscapeOf[str[2]]>> \o Unescape(SubSeq(str, 3, Len(str)))
    ELSE <<str[1]>> \o Unescape(Tail(str))

\* C29: the text main signs for a value of -message is the one pass over
\* the value from left to right; backslash, backslash, n gives a backslash
\* followed by n.
C29_SinglePassUnescape ==
    (JustRan("Validate") /\ mpc = "expand" /\ args.message # <<>>) =>
        /\ messageText = Unescape(args.message)
        /\ args.message = <<92, 92, 110>> => messageText = <<92, 110>>

\* exactly one of -keypair and -private-key has a value
OneKeyOption == ~NotExactlyOne(args.keypair, args.privateKey)

\* main has stopped at the message check
NoMessageGiven ==
    /\ EndedInValidation
    /\ stderr = <<[msg |-> "Error: Either -message or -message-file must be provided"]>>
    /\ stdout = <<[kind |-> "usage"]>>
    /\ messageText = <<>>

\* what is signed came from the file, and no signature exists for an empty
\* text that -message-file did not supply
SignedFromFile ==
    /\ (HasRun("SignMessage") /\ args.message = <<>>) =>
           /\ args.messageFile # <<>>
           /\ ReadFile(args.messageFile).err = nil
           /\ messageText = ReadFile(args.messageFile).data
           /\ signature = Sign(keypair, messageText)
    /\ (HasRun("SignMessage") /\ args.messageFile = <<>>) =>
           /\ args.message # <<>>
           /\ messageText # <<>>

====
